---- MODULE Spec2Model ----
(***************************************************************************)
(* Placeholder detection (lib/placeholder_detector.py) and replacement     *)
(* (lib/document_replacer.py) of the legal document filler.                *)
(*                                                                         *)
(* A text is a sequence of one-character strings.  Positions are Python's: *)
(* position i stands before the character t[i+1], a span (start, end) is   *)
(* the slice t[start:end].  Three characters outside ASCII that the        *)
(* source's regular expressions name are written as the tokens "<ldquo>",  *)
(* "<rdquo>" and "<emdash>", each one character of a text.                 *)
(***************************************************************************)
EXTENDS Integers, Sequences, FiniteSets, TLC

\* ------------------------------------------------------------ characters

UpperSeq == <<"A","B","C","D","E","F","G","H","I","J","K","L","M",
              "N","O","P","Q","R","S","T","U","V","W","X","Y","Z">>
LowerSeq == <<"a","b","c","d","e","f","g","h","i","j","k","l","m",
              "n","o","p","q","r","s","t","u","v","w","x","y","z">>
DigitSeq == <<"0","1","2","3","4","5","6","7","8","9">>
UpperSet == {UpperSeq[i] : i \in 1..26}
LowerSet == {LowerSeq[i] : i \in 1..26}
DigitSet == {DigitSeq[i] : i \in 1..10}

\* str.lower / str.upper on one character
LowerOf(c) == IF c \in UpperSet THEN LowerSeq[CHOOSE i \in 1..26 : UpperSeq[i] = c] ELSE c
UpperOf(c) == IF c \in LowerSet THEN UpperSeq[CHOOSE i \in 1..26 : LowerSeq[i] = c] ELSE c

IsAlpha(c) == c \in UpperSet \/ c \in LowerSet
IsDigit(c) == c \in DigitSet
\* \s of the regular expressions, and what str.strip removes
IsSpace(c) == c \in {" ", "\t", "\n", "\r"}
\* the class [A-Za-z0-9_\s-] of every label pattern
InCls(c) == IsAlpha(c) \/ IsDigit(c) \/ c = "_" \/ IsSpace(c) \/ c = "-"
\* the class [ \t\._\-<emdash>] of the signature-line remainder
IsLeader(c) == c \in {" ", "\t", ".", "_", "-", "<emdash>"}

\* ------------------------------------------------------------ strings

Max2(a, b) == IF a >= b THEN a ELSE b
Min2(a, b) == IF a <= b THEN a ELSE b

\* the slice t[a:b] (clamped as Python clamps it)
Slice(t, a, b) ==
    LET a1 == Min2(Max2(a, 0), Len(t))
        b1 == Min2(Max2(b, 0), Len(t))
    IN SubSeq(t, a1 + 1, b1)

Lower(s) == [i \in 1..Len(s) |-> LowerOf(s[i])]
Upper(s) == [i \in 1..Len(s) |-> UpperOf(s[i])]
\* str.title: a letter after a non-letter is upper-cased, any other letter lower-cased
Title(s) == [i \in 1..Len(s) |->
               IF i = 1 \/ ~IsAlpha(s[i - 1]) THEN UpperOf(s[i]) ELSE LowerOf(s[i])]
\* str.replace(a, b) for single characters
ReplaceChar(s, a, b) == [i \in 1..Len(s) |-> IF s[i] = a THEN b ELSE s[i]]

RECURSIVE SkipSpace(_, _)
SkipSpace(t, i) == IF i < Len(t) /\ IsSpace(t[i + 1]) THEN SkipSpace(t, i + 1) ELSE i
RECURSIVE SkipCls(_, _)
SkipCls(t, i) == IF i < Len(t) /\ InCls(t[i + 1]) THEN SkipCls(t, i + 1) ELSE i
RECURSIVE SkipUnderscores(_, _)
SkipUnderscores(t, i) == IF i < Len(t) /\ t[i + 1] = "_" THEN SkipUnderscores(t, i + 1) ELSE i
RECURSIVE SkipLeaders(_, _)
SkipLeaders(t, i) == IF i < Len(t) /\ IsLeader(t[i + 1]) THEN SkipLeaders(t, i + 1) ELSE i
\* the position after the last character of t[a:b] that is not white space (a if none)
RECURSIVE BackSpace(_, _, _)
BackSpace(t, a, b) == IF b > a /\ IsSpace(t[b]) THEN BackSpace(t, a, b - 1) ELSE b
\* the start of the longest run of class characters that ends at position b
RECURSIVE BackCls(_, _)
BackCls(t, b) == IF b > 0 /\ InCls(t[b]) THEN BackCls(t, b - 1) ELSE b

\* str.strip()
Strip(t) == LET a == SkipSpace(t, 0) IN Slice(t, a, BackSpace(t, a, Len(t)))

AllSpace(t) == \A i \in 1..Len(t) : IsSpace(t[i])

EndsWith(t, suffix) ==
    Len(suffix) <= Len(t) /\ Slice(t, Len(t) - Len(suffix), Len(t)) = suffix
StartsWith(t, prefix) ==
    Len(prefix) <= Len(t) /\ Slice(t, 0, Len(prefix)) = prefix

\* str(n) for n >= 0
RECURSIVE IntToStr(_)
IntToStr(n) == IF n < 10 THEN <<DigitSeq[n + 1]>>
               ELSE IntToStr(n \div 10) \o <<DigitSeq[(n % 10) + 1]>>

\* ------------------------------------------------------------ normalization

RECURSIVE CollapseUnderscores(_)
CollapseUnderscores(s) ==
    IF Len(s) < 2 THEN s
    ELSE IF s[1] = "_" /\ s[2] = "_" THEN CollapseUnderscores(Tail(s))
    ELSE <<s[1]>> \o CollapseUnderscores(Tail(s))

RECURSIVE StripUnderscoresLeft(_)
StripUnderscoresLeft(s) ==
    IF Len(s) > 0 /\ s[1] = "_" THEN StripUnderscoresLeft(Tail(s)) ELSE s
RECURSIVE StripUnderscoresRight(_)
StripUnderscoresRight(s) ==
    IF Len(s) > 0 /\ s[Len(s)] = "_" THEN StripUnderscoresRight(SubSeq(s, 1, Len(s) - 1)) ELSE s

IsKeyChar(c) == c \in LowerSet \/ c \in DigitSet \/ c = "_"

\* the underscores stripped before the other characters are dropped
normalize_strip_first(name) ==
    CollapseUnderscores(
        SelectSeq(StripUnderscoresRight(StripUnderscoresLeft(
                      ReplaceChar(Lower(name), " ", "_"))), IsKeyChar))

\* lower; ' ' -> '_'; drop what is not [a-z0-9_]; collapse '_' runs; strip '_'
normalize_placeholder_name(name) ==
    LET lowered   == Lower(name)
        spaced    == ReplaceChar(lowered, " ", "_")
        kept      == SelectSeq(spaced, IsKeyChar)
        collapsed == CollapseUnderscores(kept)
    IN StripUnderscoresRight(StripUnderscoresLeft(collapsed))

\* ------------------------------------------------------------ patterns

NoMatch == -1

At(t, i, c) == i >= 0 /\ i < Len(t) /\ t[i + 1] = c

\* \$\s*\[\s*_{3,}\s*\] tried at position i: the end of the match, or NoMatch
MatchDollarUnderscore(t, i) ==
    IF ~At(t, i, "$") THEN NoMatch
    ELSE LET a == SkipSpace(t, i + 1) IN
         IF ~At(t, a, "[") THEN NoMatch
         ELSE LET b == SkipSpace(t, a + 1)
                  c == SkipUnderscores(t, b)
                  d == SkipSpace(t, c)
              IN IF c - b >= 3 /\ At(t, d, "]") THEN d + 1 ELSE NoMatch

\* \[\s*([A-Za-z][A-Za-z0-9_\s-]+?)\s*\] tried at position i
MatchSquareBracket(t, i) ==
    IF ~At(t, i, "[") THEN NoMatch
    ELSE LET a == SkipSpace(t, i + 1) IN
         IF ~(a < Len(t) /\ IsAlpha(t[a + 1])) THEN NoMatch
         ELSE LET b == SkipCls(t, a + 1)
              IN IF b >= a + 2 /\ At(t, b, "]") THEN b + 1 ELSE NoMatch

\* group 1 of the square bracket match at i: the letter, then as few characters
\* as leave only white space before the bracket (and at least one)
CapturedSquareBracket(t, i) ==
    LET a == SkipSpace(t, i + 1)
        b == SkipCls(t, a + 1)
    IN Slice(t, a, Max2(BackSpace(t, a, b), a + 2))

\* \{\{\s*([A-Za-z0-9_\s-]+?)\s*\}\} tried at position i
MatchDoubleCurly(t, i) ==
    IF ~(At(t, i, "{") /\ At(t, i + 1, "{")) THEN NoMatch
    ELSE LET b == SkipCls(t, i + 2)
         IN IF b >= i + 3 /\ At(t, b, "}") /\ At(t, b + 1, "}") THEN b + 2 ELSE NoMatch

\* \{\s*([A-Za-z0-9_\s-]+?)\s*\} tried at position i
MatchSingleCurly(t, i) ==
    IF ~At(t, i, "{") THEN NoMatch
    ELSE LET b == SkipCls(t, i + 1)
         IN IF b >= i + 2 /\ At(t, b, "}") THEN b + 1 ELSE NoMatch

\* group 1 of a curly match whose interior is t[from:to]: the interior without
\* its surrounding white space; of an all-white interior, its last character
CapturedInterior(t, from, to) ==
    LET a == SkipSpace(t, from) IN
    IF a >= to THEN Slice(t, to - 1, to) ELSE Slice(t, a, BackSpace(t, a, to))

\* _{3,} tried at position i
MatchUnderscore(t, i) ==
    LET c == SkipUnderscores(t, i) IN IF c - i >= 3 THEN c ELSE NoMatch

MatchEnd(kind, t, i) ==
    CASE kind = "dollar_underscore" -> MatchDollarUnderscore(t, i)
      [] kind = "square_bracket"    -> MatchSquareBracket(t, i)
      [] kind = "double_curly"      -> MatchDoubleCurly(t, i)
      [] kind = "single_curly"      -> MatchSingleCurly(t, i)
      [] kind = "underscore"        -> MatchUnderscore(t, i)

\* m.group(1) of the match of `kind` at (start, end); <<>> stands for "no group"
Captured(kind, t, start, end) ==
    CASE kind = "square_bracket" -> CapturedSquareBracket(t, start)
      [] kind = "double_curly"   -> CapturedInterior(t, start + 2, end - 2)
      [] kind = "single_curly"   -> CapturedInterior(t, start + 1, end - 1)
      [] OTHER                   -> <<>>

\* re.finditer(pattern, t): leftmost matches, each search resuming at the end
\* of the previous match
RECURSIVE FindIterFrom(_, _, _)
FindIterFrom(kind, t, i) ==
    IF i >= Len(t) THEN <<>>
    ELSE LET e == MatchEnd(kind, t, i) IN
         IF e = NoMatch THEN FindIterFrom(kind, t, i + 1)
         ELSE <<[start |-> i, end |-> e]>> \o FindIterFrom(kind, t, e)

finditer(kind, t) == FindIterFrom(kind, t, 0)

\* regex.search(t) is not None
RECURSIVE SearchFrom(_, _, _)
SearchFrom(kind, t, i) ==
    IF i >= Len(t) THEN FALSE
    ELSE MatchEnd(kind, t, i) # NoMatch \/ SearchFrom(kind, t, i + 1)

\* ------------------------------------------------------------ signature line

Str_address == <<"a","d","d","r","e","s","s">>
Str_email   == <<"e","m","a","i","l">>
Str_e_mail  == <<"e","-","m","a","i","l">>
Str_phone   == <<"p","h","o","n","e">>
Str_name    == <<"n","a","m","e">>
Str_title   == <<"t","i","t","l","e">>
Str_by      == <<"b","y">>

\* the alternation (Address|Email|E-mail|Phone|Name|Title), matched ignoring case
sig_re_labels == <<Str_address, Str_email, Str_e_mail, Str_phone, Str_name, Str_title>>

\* \s*:?\s*([ \t\._\-<emdash>]*)$ from position i: $ is the end of the text or
\* the position before a final newline
SigRemainderMatches(t, i) ==
    LET a == SkipSpace(t, i)
        b == IF At(t, a, ":") THEN a + 1 ELSE a
        c == SkipSpace(t, b)
        d == SkipLeaders(t, c)
    IN d = Len(t) \/ (d = Len(t) - 1 /\ t[Len(t)] = "\n")

\* sig_re.match(t): the set of (at most one) captured labels, group 1
SigMatch(t) ==
    LET a == SkipSpace(t, 0) IN
    { Slice(t, a, a + Len(sig_re_labels[k])) : k \in
        { k \in 1..Len(sig_re_labels) :
            /\ Lower(Slice(t, a, a + Len(sig_re_labels[k]))) = sig_re_labels[k]
            /\ SigRemainderMatches(t, a + Len(sig_re_labels[k])) } }

\* ------------------------------------------------------------ candidates

patterns == <<"dollar_underscore", "square_bracket", "double_curly",
              "single_curly", "underscore">>

priority_map(kind) ==
    CASE kind = "signature_label"   -> 6
      [] kind = "dollar_underscore" -> 5
      [] kind = "square_bracket"    -> 4
      [] kind = "double_curly"      -> 3
      [] kind = "single_curly"      -> 2
      [] kind = "underscore"        -> 1

Candidate(kind, t, locator, start, end) ==
    [start |-> start, end |-> end, length |-> end - start, kind |-> kind,
     priority |-> priority_map(kind), original |-> Slice(t, start, end),
     captured |-> Captured(kind, t, start, end), locator |-> locator, text |-> t]

PatternCandidates(kind, t, locator) ==
    LET ms == finditer(kind, t)
    IN [k \in 1..Len(ms) |-> Candidate(kind, t, locator, ms[k].start, ms[k].end)]

RECURSIVE ConcatAll(_)
ConcatAll(ss) == IF ss = <<>> THEN <<>> ELSE Head(ss) \o ConcatAll(Tail(ss))

SignatureCandidates(t, locator) ==
    LET caps == SigMatch(t) IN
    IF caps = {} THEN <<>>
    ELSE <<[start |-> 0, end |-> Len(t), length |-> Len(t), kind |-> "signature_label",
            priority |-> priority_map("signature_label"), original |-> Strip(t),
            captured |-> CHOOSE c \in caps : TRUE, locator |-> locator, text |-> t]>>

\* every raw match of the five patterns in pattern order, then the signature line
collect_candidates(t, locator) ==
    IF t = <<>> THEN <<>>
    ELSE ConcatAll([k \in 1..Len(patterns) |-> PatternCandidates(patterns[k], t, locator)])
         \o SignatureCandidates(t, locator)

\* ------------------------------------------------------------ arbitration

\* a sort that puts the later start first
SortsLaterFirst(c, d) == c.start > d.start

\* the sort key (start, -priority, -length), compared as Python compares tuples
SortsBefore(c, d) ==
    \/ c.start < d.start
    \/ c.start = d.start /\ c.priority > d.priority
    \/ c.start = d.start /\ c.priority = d.priority /\ c.length > d.length

\* list.sort is stable: an element goes after every element that does not sort after it
RECURSIVE InsertSorted(_, _)
InsertSorted(sorted, c) ==
    IF sorted = <<>> THEN <<c>>
    ELSE IF SortsBefore(c, Head(sorted)) THEN <<c>> \o sorted
    ELSE <<Head(sorted)>> \o InsertSorted(Tail(sorted), c)

RECURSIVE SortCandidates(_)
SortCandidates(cs) ==
    IF cs = <<>> THEN <<>>
    ELSE InsertSorted(SortCandidates(SubSeq(cs, 1, Len(cs) - 1)), cs[Len(cs)])

\* the overlap test with the taken span's start where its end belongs
OverlapsStart(s, e, s2, e2) == ~(e <= s2 \/ s >= s2)

\* not (e <= s2 or s >= e2)
Overlaps(s, e, s2, e2) == ~(e <= s2 \/ s >= e2)

OverlapsTaken(c, kept) ==
    \E k \in 1..Len(kept) : Overlaps(c.start, c.end, kept[k].start, kept[k].end)

RECURSIVE Sweep(_, _)
Sweep(sorted, kept) ==
    IF sorted = <<>> THEN kept
    ELSE IF OverlapsTaken(Head(sorted), kept) THEN Sweep(Tail(sorted), kept)
    ELSE Sweep(Tail(sorted), Append(kept, Head(sorted)))

\* arbitration that sorts and keeps every match
arbitrate_all(collected) == SortCandidates(collected)

arbitrate(collected) == Sweep(SortCandidates(collected), <<>>)

\* kept = arbitrate(collect_candidates(paragraph.text, locator))
KeptOf(para) == arbitrate(collect_candidates(para.text, para.locator))

\* ------------------------------------------------------------ context labels

LabelMax == 50

NoLabel == [found |-> FALSE, label |-> <<>>]

\* ([A-Za-z][A-Za-z0-9_\s-]{minMore,50})\s*:\s*$  (colonRequired) and
\* ([A-Za-z][A-Za-z0-9_\s-]{minMore,50})\s*:?\s*$ searched in the stripped text
\* before a match: the leftmost letter from which only class characters lead to
\* the final colon (or the end), the group taking at most 50 of them
LabelBefore(before, minMore, colonRequired) ==
    LET n        == Len(before)
        hasColon == n > 0 /\ before[n] = ":"
        e        == IF hasColon THEN n - 1 ELSE n
        a        == BackCls(before, e)
        starts   == { p \in a..(e - 1 - minMore) :
                        /\ IsAlpha(before[p + 1])
                        /\ \/ e - 1 - p <= LabelMax
                           \/ AllSpace(Slice(before, p + 1 + LabelMax, e)) }
    IN IF (colonRequired /\ ~hasColon) \/ starts = {} THEN NoLabel
       ELSE LET p == CHOOSE p \in starts : \A q \in starts : p <= q
            IN [found |-> TRUE, label |-> Slice(before, p, Min2(e, p + 1 + LabelMax))]

Str_the == <<"t","h","e">>

\* \(\s*the\s+[quotes]?([A-Za-z][A-Za-z0-9_\s-]{2,})[quotes]?\s*\) tried at the
\* parenthesis at position p (ignoring case)
AfterLabelAt(after, p, quotes) ==
    LET q  == SkipSpace(after, p + 1)
        r  == SkipSpace(after, q + 3)
        r3 == IF r < Len(after) /\ after[r + 1] \in quotes THEN r + 1 ELSE r
        g  == SkipCls(after, r3 + 1)
        h  == IF g < Len(after) /\ after[g + 1] \in quotes THEN g + 1 ELSE g
        k  == SkipSpace(after, h)
    IN IF /\ At(after, p, "(")
          /\ Lower(Slice(after, q, q + 3)) = Str_the
          /\ r > q + 3
          /\ r3 < Len(after) /\ IsAlpha(after[r3 + 1])
          /\ g >= r3 + 3
          /\ At(after, k, ")")
       THEN [found |-> TRUE, label |-> Slice(after, r3, g)]
       ELSE NoLabel

RECURSIVE AfterLabelFrom(_, _, _)
AfterLabelFrom(after, p, quotes) ==
    IF p >= Len(after) THEN NoLabel
    ELSE LET m == AfterLabelAt(after, p, quotes) IN
         IF m.found THEN m ELSE AfterLabelFrom(after, p + 1, quotes)

\* the quote class ['\"<ldquo><rdquo>] of detection
DetectQuotes == {"'", "\"", "<ldquo>", "<rdquo>"}
\* the quote class ['\" ] of replacement: the space never decides a match, the
\* \s+ before it and the label class before the second one take every space
ReplaceQuotes == {"'", "\"", " "}

AfterWindow == 100

stopwords == { <<"o","f">>, <<"t","h","e">>, <<"a">>, <<"a","n">>, <<"i","s">>,
               <<"a","t">>, <<"o","n">>, <<"b","y">>, <<"f","o","r">>, <<"i","n">> }

Str_field_  == <<"f","i","e","l","d","_">>
Str_amount_ == <<"a","m","o","u","n","t","_">>
Str_field   == <<"f","i","e","l","d">>

\* the key of an 'underscore' match at start, or <<>> when the counter names it
NoKey == [found |-> FALSE, key |-> <<>>]

KeyOfLabel(m) ==
    IF m.found THEN [found |-> TRUE, key |-> normalize_placeholder_name(m.label)] ELSE NoKey

UnderscoreLabelKey(t, start) == KeyOfLabel(LabelBefore(Strip(Slice(t, 0, start)), 1, TRUE))

\* the key of a 'dollar_underscore' match at (start, end) when a label names it
\* the label after the match is preferred; a label before it counts unless it
\* is a stop word
DollarKeyOf(after, m) ==
    IF after.found THEN KeyOfLabel(after)
    ELSE IF m.found /\ Lower(Strip(m.label)) \notin stopwords THEN KeyOfLabel(m)
    ELSE NoKey

DollarLabelKey(t, start, end, quotes) ==
    DollarKeyOf(AfterLabelFrom(Slice(t, end, end + AfterWindow), 0, quotes),
                LabelBefore(Strip(Slice(t, 0, start)), 2, FALSE))

\* ------------------------------------------------------------ detection

\* placeholders: the dict {normalized: [originals]} in insertion order
Keys(entries) == {entries[k].key : k \in 1..Len(entries)}
HasKey(entries, key) == \E k \in 1..Len(entries) : entries[k].key = key
EntryOf(entries, key) == entries[CHOOSE k \in 1..Len(entries) : entries[k].key = key]

InSeq(x, s) == \E k \in 1..Len(s) : s[k] = x

\* placeholders.setdefault(normalized, []); append original unless already there
AddOriginal(placeholders, normalized, original) ==
    IF HasKey(placeholders, normalized)
    THEN [k \in 1..Len(placeholders) |->
            IF placeholders[k].key = normalized /\ ~InSeq(original, placeholders[k].originals)
            THEN [placeholders[k] EXCEPT !.originals = Append(@, original)]
            ELSE placeholders[k]]
    ELSE Append(placeholders, [key |-> normalized, originals |-> <<original>>])

CountAmountKeys(keys) == Cardinality({k \in keys : StartsWith(k, Str_amount_)})

\* an id that names the paragraph only
InstanceIdOfParagraph(locator, start, end) == locator

\* f"{locator}-s{start}-e{end}"
InstanceId(locator, start, end) ==
    locator \o <<"-", "s">> \o IntToStr(start) \o <<"-", "e">> \o IntToStr(end)

\* the state d of a detection is (underscore_counter, placeholders, candidates);
\* the kept match c is recorded under the key `normalized`
Record(d, c, counter, normalized) ==
    [underscore_counter |-> counter,
     placeholders |-> AddOriginal(d.placeholders, normalized, c.original),
     candidates |-> Append(d.candidates,
         [id |-> InstanceId(c.locator, c.start, c.end), normalized |-> normalized,
          original |-> c.original, pattern_type |-> c.kind,
          locator |-> c.locator, start |-> c.start, end |-> c.end])]

\* an underscore run: the label before it, or the next field_<n>
ProcessUnderscore(d, c, ul) ==
    IF ul.found THEN Record(d, c, d.underscore_counter, ul.key)
    ELSE Record(d, c, d.underscore_counter + 1,
                Str_field_ \o IntToStr(d.underscore_counter + 1))

\* a dollar amount: a label around it, or the next amount_<n>
ProcessDollar(d, c, dl) ==
    Record(d, c, d.underscore_counter,
           IF dl.found THEN dl.key
           ELSE Str_amount_ \o IntToStr(CountAmountKeys(Keys(d.placeholders)) + 1))

\* one iteration of process_kept's loop on the kept match c, from the state d
ProcessOne(d, c) ==
    CASE c.kind = "underscore" ->
            ProcessUnderscore(d, c, UnderscoreLabelKey(c.text, c.start))
      [] c.kind = "dollar_underscore" ->
            ProcessDollar(d, c, DollarLabelKey(c.text, c.start, c.end, DetectQuotes))
      [] c.kind \in {"double_curly", "single_curly", "square_bracket"} ->
            Record(d, c, d.underscore_counter, normalize_placeholder_name(c.captured))
      [] c.kind = "signature_label" ->
            Record(d, c, d.underscore_counter,
                   normalize_placeholder_name(IF c.captured = <<>> THEN Str_field
                                              ELSE c.captured))
      [] OTHER ->
            Record(d, c, d.underscore_counter + 1,
                   Str_field_ \o IntToStr(d.underscore_counter + 1))

RECURSIVE process_kept(_, _)
process_kept(d, kept) ==
    IF kept = <<>> THEN d ELSE process_kept(ProcessOne(d, Head(kept)), Tail(kept))

\* ------------------------------------------------------------ documents

\* a document: body paragraphs, and tables of rows of cells of paragraphs
BodyLocator(pi) == <<"p">> \o IntToStr(pi)
CellLocator(ti, ri, ci, pi) ==
    <<"t">> \o IntToStr(ti) \o <<"-", "r">> \o IntToStr(ri)
            \o <<"-", "c">> \o IntToStr(ci) \o <<"-", "p">> \o IntToStr(pi)

\* doc.paragraphs with their locators
BodyParagraphs(d) ==
    [pi \in 1..Len(d.body) |-> [locator |-> BodyLocator(pi - 1), text |-> d.body[pi]]]

\* the paragraphs in the order both passes visit them: doc.paragraphs, then
\* table by table, row by row, cell by cell, paragraph by paragraph
Traversal(d) ==
    BodyParagraphs(d)
    \o ConcatAll([ti \in 1..Len(d.tables) |->
         ConcatAll([ri \in 1..Len(d.tables[ti]) |->
           ConcatAll([ci \in 1..Len(d.tables[ti][ri]) |->
             [pi \in 1..Len(d.tables[ti][ri][ci]) |->
                [locator |-> CellLocator(ti - 1, ri - 1, ci - 1, pi - 1),
                 text |-> d.tables[ti][ri][ci][pi]]]])])])

\* groups that keep only the first instance of a key
RECURSIVE BuildGroupsFirst(_, _)
BuildGroupsFirst(groups, cands) ==
    IF cands = <<>> THEN groups
    ELSE BuildGroupsFirst(
            IF HasKey(groups, Head(cands).normalized) THEN groups
            ELSE Append(groups, [key |-> Head(cands).normalized, ids |-> <<Head(cands).id>>]),
            Tail(cands))

\* groups.setdefault(cand['normalized'], []).append(cand['id'])
RECURSIVE BuildGroups(_, _)
BuildGroups(groups, cands) ==
    IF cands = <<>> THEN groups
    ELSE LET c == Head(cands) IN
         BuildGroups(
            IF HasKey(groups, c.normalized)
            THEN [k \in 1..Len(groups) |->
                    IF groups[k].key = c.normalized
                    THEN [groups[k] EXCEPT !.ids = Append(@, c.id)] ELSE groups[k]]
            ELSE Append(groups, [key |-> c.normalized, ids |-> <<c.id>>]),
            Tail(cands))

\* ------------------------------------------------------------ answers

\* answers: the dict {key: value} in insertion order, as [key, value] entries.
\* The variants under which _build_placeholder_lookup files one key
KeyVariants(k1) ==
    { k1, Upper(k1), Lower(k1), ReplaceChar(k1, " ", "_"), ReplaceChar(k1, "_", " "),
      Title(k1), ReplaceChar(Lower(k1), " ", "_"), ReplaceChar(Upper(k1), " ", "_") }

\* lookup = _build_placeholder_lookup(answers): per key of answers, the variants
\* that are written with its value
build_placeholder_lookup(answers) ==
    [k \in 1..Len(answers) |->
        [keys |-> KeyVariants(answers[k].key), value |-> answers[k].value]]

\* `v in lookup`, and lookup[v], which the last key that files v has written
Filing(lookup, v) == {k \in 1..Len(lookup) : v \in lookup[k].keys}
LastOf(ks) == CHOOSE k \in ks : \A j \in ks : j <= k
FirstOf(ks) == CHOOSE k \in ks : \A j \in ks : k <= j
InLookup(lookup, v) == Filing(lookup, v) # {}
LookupGet(lookup, v) == lookup[LastOf(Filing(lookup, v))].value

NoValue == [found |-> FALSE, value |-> <<>>]

\* the variants _resolve_value tries after the key itself, in its order
ResolveVariants(normalized) ==
    << Upper(normalized), Lower(normalized), ReplaceChar(normalized, " ", "_"),
       ReplaceChar(normalized, "_", " "), Title(normalized),
       ReplaceChar(Lower(normalized), " ", "_"), ReplaceChar(Upper(normalized), " ", "_") >>

\* lookup[v] of the first of the keys vs that the lookup holds
FirstHit(lookup, vs) ==
    IF \A k \in 1..Len(vs) : ~InLookup(lookup, vs[k]) THEN NoValue
    ELSE [found |-> TRUE,
          value |-> LookupGet(lookup, vs[FirstOf({k \in 1..Len(vs) : InLookup(lookup, vs[k])})])]

\* the key itself, then its variants
resolve_value(lookup, normalized) ==
    FirstHit(lookup, <<normalized>> \o ResolveVariants(normalized))

Prefer(r, other) == IF r.found THEN r ELSE other

\* what _resolve_value tries for each key of a synonym list, in order
RECURSIVE TriedFor(_)
TriedFor(keys) ==
    IF keys = <<>> THEN <<>>
    ELSE <<Head(keys)>> \o ResolveVariants(Head(keys)) \o TriedFor(Tail(keys))

dollar_synonyms ==
    << <<"p","u","r","c","h","a","s","e","_","a","m","o","u","n","t">>,
       <<"a","m","o","u","n","t">>, <<"p","r","i","c","e">>,
       <<"a","m","o","u","n","t","_","1">> >>

underscore_synonyms ==
    << <<"b","l","a","n","k","_","1">>, <<"b","l","a","n","k">>,
       <<"f","i","e","l","d","_","1">>,
       <<"s","i","g","n","a","t","o","r","y","_","n","a","m","e">>,
       Str_by, Str_name, Str_title, Str_address, Str_email, Str_phone >>

dollar_tried == TriedFor(dollar_synonyms)
underscore_tried == TriedFor(underscore_synonyms)

\* the first key of a synonym list that resolves
ResolveFirst(lookup, tried) == FirstHit(lookup, tried)

\* overrides: the dict {instance_id: {'answer': value}}, as [id, answer] entries.
\* inst = overrides.get(instance_id); inst and inst.get('answer')
OverrideAt(overrides, ks) ==
    IF ks = {} THEN NoValue ELSE [found |-> TRUE, value |-> overrides[FirstOf(ks)].answer]

OverrideFor(overrides, id) ==
    OverrideAt(overrides,
               {k \in 1..Len(overrides) : overrides[k].id = id /\ overrides[k].answer # <<>>})

\* ------------------------------------------------------------ replacement

\* _compile_patterns, in its order
compile_patterns == <<"double_curly", "single_curly", "square_bracket",
                      "underscore", "dollar_underscore">>

\* the state of one replace_placeholders call that its paragraphs share
FillInit == [underscore_counter |-> 0, existing_keys |-> {}]

\* _normalize_with_context and the normalizer lambdas: the key of one match, and
\* the counter and key set after it
\* an underscore run: the label before it, or the next field_<n>
NormalizeUnderscore(f, ul) ==
    IF ul.found THEN [f |-> f, normalized |-> ul.key]
    ELSE [f |-> [f EXCEPT !.underscore_counter = @ + 1],
          normalized |-> Str_field_ \o IntToStr(f.underscore_counter + 1)]

\* a key the call has not met is added to existing_keys
Keyed(f, key) ==
    [f |-> IF key # <<>> THEN [f EXCEPT !.existing_keys = @ \cup {key}] ELSE f,
     normalized |-> key]

\* a dollar amount: a label around it, or the next amount_<n>
NormalizeDollar(f, dl) ==
    IF dl.found THEN [f |-> f, normalized |-> dl.key]
    ELSE Keyed(f, Str_amount_ \o IntToStr(CountAmountKeys(f.existing_keys) + 1))

NormalizeMatch(f, t, kind, m) ==
    CASE kind = "underscore" -> NormalizeUnderscore(f, UnderscoreLabelKey(t, m.start))
      [] kind = "dollar_underscore" ->
            NormalizeDollar(f, DollarLabelKey(t, m.start, m.end, ReplaceQuotes))
      [] OTHER ->
            Keyed(f, normalize_placeholder_name(Strip(Captured(kind, t, m.start, m.end))))

\* the value one match is replaced by: the value for its key, an override for
\* its instance id, then the synonym lists of the two context patterns
ReplacementValue(lookup, overrides, locator, kind, m, normalized) ==
    Prefer(IF overrides = <<>> THEN NoValue
           ELSE OverrideFor(overrides, InstanceId(locator, m.start, m.end)),
      Prefer(resolve_value(lookup, normalized),
             IF kind = "dollar_underscore" THEN ResolveFirst(lookup, dollar_tried)
             ELSE IF kind = "underscore" THEN ResolveFirst(lookup, underscore_tried)
             ELSE NoValue))

\* the match m is logged, and planned when it has a value v
Planned(acc, locator, kind, m, nk, v) ==
    [f |-> nk.f,
     matches |-> Append(acc.matches,
                   [locator |-> locator, start |-> m.start, end |-> m.end,
                    pattern_type |-> kind, normalized |-> nk.normalized]),
     replacements |->
       IF v.found
       THEN Append(acc.replacements,
                   [start |-> m.start, end |-> m.end, value |-> v.value,
                    normalized |-> nk.normalized, kind |-> kind])
       ELSE acc.replacements]

\* the match m, whose key and counter state nk holds
PlanKeyed(acc, lookup, overrides, locator, kind, m, nk) ==
    Planned(acc, locator, kind, m, nk,
            ReplacementValue(lookup, overrides, locator, kind, m, nk.normalized))

\* the matches of one pattern, in order: acc is (f, replacements, matches), where
\* matches is what the "Detected match at ..." log line records of every match
RECURSIVE PlanMatches(_, _, _, _, _, _, _)
PlanMatches(acc, lookup, overrides, t, locator, kind, ms) ==
    IF ms = <<>> THEN acc
    ELSE PlanMatches(
           PlanKeyed(acc, lookup, overrides, locator, kind, Head(ms),
                     NormalizeMatch(acc.f, t, kind, Head(ms))),
           lookup, overrides, t, locator, kind, Tail(ms))

RECURSIVE PlanPatterns(_, _, _, _, _, _)
PlanPatterns(acc, lookup, overrides, t, locator, kinds) ==
    IF kinds = <<>> THEN acc
    ELSE PlanPatterns(
           PlanMatches(acc, lookup, overrides, t, locator, Head(kinds),
                       finditer(Head(kinds), t)),
           lookup, overrides, t, locator, Tail(kinds))

\* replacements.sort(key=lambda x: x[0], reverse=True): descending start, equal
\* starts keeping their order
RECURSIVE InsertDescending(_, _)
InsertDescending(sorted, r) ==
    IF sorted = <<>> THEN <<r>>
    ELSE IF r.start > Head(sorted).start THEN <<r>> \o sorted
    ELSE <<Head(sorted)>> \o InsertDescending(Tail(sorted), r)

RECURSIVE SortDescending(_)
SortDescending(rs) ==
    IF rs = <<>> THEN <<>>
    ELSE InsertDescending(SortDescending(SubSeq(rs, 1, Len(rs) - 1)), rs[Len(rs)])

\* working_text = working_text[:start] + replacement_value + working_text[end:]
RECURSIVE ApplyReplacements(_, _)
ApplyReplacements(working_text, rs) ==
    IF rs = <<>> THEN working_text
    ELSE ApplyReplacements(
            Slice(working_text, 0, Head(rs).start) \o Head(rs).value
                \o Slice(working_text, Head(rs).end, Len(working_text)),
            Tail(rs))

HasPlaceholders(t) == \E k \in 1..Len(compile_patterns) : SearchFrom(compile_patterns[k], t, 0)

\* the replacements _replace_in_paragraph plans for one paragraph, and the
\* counter state after it
PlanParagraph(f, lookup, overrides, t, locator) ==
    IF t = <<>> \/ ~HasPlaceholders(t)
    THEN [f |-> f, matches |-> <<>>, replacements |-> <<>>]
    ELSE PlanPatterns([f |-> f, matches |-> <<>>, replacements |-> <<>>],
                      lookup, overrides, t, locator, compile_patterns)

\* _replace_in_paragraph: the paragraph's text and the counter state after it
ApplyPlan(t, plan) ==
    [f |-> plan.f, matches |-> plan.matches,
     text |-> IF plan.replacements = <<>> THEN t
              ELSE ApplyReplacements(t, SortDescending(plan.replacements))]

replace_in_paragraph(f, lookup, overrides, t, locator) ==
    ApplyPlan(t, PlanParagraph(f, lookup, overrides, t, locator))

\* the labels of _fill_signature_labels, in the dict's order
signature_labels ==
    << [label |-> Str_address \o <<":">>, key |-> Str_address],
       [label |-> Str_email \o <<":">>,   key |-> Str_email],
       [label |-> Str_phone \o <<":">>,   key |-> Str_phone],
       [label |-> Str_by \o <<":">>,      key |-> Str_by],
       [label |-> Str_name \o <<":">>,    key |-> Str_name],
       [label |-> Str_title \o <<":">>,   key |-> Str_title] >>

\* process_para of _fill_signature_labels: the first label the stripped,
\* lower-cased text ends with; `if value` asks for a non-empty value
\* the value appended without the space
AppendValueBare(t, v) == IF v.found /\ v.value # <<>> THEN t \o v.value ELSE t

\* paragraph.add_run(' ' + str(value)) when the value is not empty
AppendValue(t, v) == IF v.found /\ v.value # <<>> THEN t \o <<" ">> \o v.value ELSE t

EndingLabels(low) ==
    {k \in 1..Len(signature_labels) : EndsWith(low, signature_labels[k].label)}

FillSignatureLabel(lookup, t, hits) ==
    IF hits = {} THEN t
    ELSE AppendValue(t, resolve_value(lookup,
            normalize_placeholder_name(signature_labels[FirstOf(hits)].key)))

FillSignatureParagraph(lookup, t) ==
    FillSignatureLabel(lookup, t, EndingLabels(Lower(Strip(t))))

fill_signature_labels(lookup, texts) ==
    [k \in 1..Len(texts) |-> FillSignatureParagraph(lookup, texts[k])]

\* ------------------------------------------------------------ false-positive filter

ignore_acronyms ==
    { <<"l","l","c">>, <<"u","s","a">>, <<"i","n","c">>, <<"l","t","d">>,
      <<"c","o">>, <<"c","o","r","p">>, <<"a","k","a">>, <<"d","b","a">>,
      <<"l","l","p">>, <<"p","l","l","c">> }

allow_short_singletons ==
    { <<"b","y">>, <<"n","a","m","e">>, <<"t","i","t","l","e">>,
      <<"e","m","a","i","l">>, <<"a","d","d","r","e","s","s">>, <<"p","h","o","n","e">> }

Str_section == <<"s","e","c","t","i","o","n">>
Str_exhibit == <<"e","x","h","i","b","i","t">>
Str_schedule == <<"s","c","h","e","d","u","l","e">>
Str_annex == <<"a","n","n","e","x">>
Str_unsubscribe == <<"u","n","s","u","b","s","c","r","i","b","e">>
Str_manage == <<"m","a","n","a","g","e">>
Str_preferences == <<"p","r","e","f","e","r","e","n","c","e","s">>
Str_view == <<"v","i","e","w">>
Str_in == <<"i","n">>
Str_browser == <<"b","r","o","w","s","e","r">>

\* str.isdigit on the strings of the model
AllDigits(s) == s # <<>> /\ \A i \in 1..Len(s) : IsDigit(s[i])

ContainsAt(t, i, w) == i >= 0 /\ i + Len(w) <= Len(t) /\ Slice(t, i, i + Len(w)) = w
Contains(t, w) == \E i \in 0..Len(t) : ContainsAt(t, i, w)
HasChar(s, c) == \E i \in 1..Len(s) : s[i] = c

RECURSIVE SkipDigits(_, _)
SkipDigits(t, i) == IF i < Len(t) /\ IsDigit(t[i + 1]) THEN SkipDigits(t, i + 1) ELSE i
RECURSIVE SkipAlnum(_, _)
SkipAlnum(t, i) ==
    IF i < Len(t) /\ (IsAlpha(t[i + 1]) \/ IsDigit(t[i + 1])) THEN SkipAlnum(t, i + 1) ELSE i

\* `$` of re.match: the end of the text, or just before its final newline
AtDollar(t, i) == i = Len(t) \/ (i = Len(t) - 1 /\ t[Len(t)] = "\n")

\* ^\d+\([a-z]\)$ with IGNORECASE
IsNumberedClause(content) ==
    LET d == SkipDigits(content, 0)
    IN /\ d >= 1
       /\ At(content, d, "(")
       /\ d + 1 < Len(content) /\ IsAlpha(content[d + 2])
       /\ At(content, d + 2, ")")
       /\ AtDollar(content, d + 3)

\* ^Section\s+\d+ with IGNORECASE
IsSectionRef(content) ==
    /\ StartsWith(Lower(content), Str_section)
    /\ LET a == SkipSpace(content, Len(Str_section))
       IN a > Len(Str_section) /\ a < Len(content) /\ IsDigit(content[a + 1])

\* ^(Exhibit|Schedule|Annex)\s+[A-Za-z0-9]+$ with IGNORECASE
IsExhibitTag(content) ==
    \E w \in {Str_exhibit, Str_schedule, Str_annex} :
        /\ StartsWith(Lower(content), w)
        /\ LET a == SkipSpace(content, Len(w))
               b == SkipAlnum(content, a)
           IN a > Len(w) /\ b > a /\ AtDollar(content, b)

\* re.search(unsubscribe|manage\s+preferences|view\s+in\s+browser) with IGNORECASE
IsBoilerplate(content) ==
    LET low == Lower(content) IN
    \E i \in 0..Len(low) :
        \/ ContainsAt(low, i, Str_unsubscribe)
        \/ /\ ContainsAt(low, i, Str_manage)
           /\ LET a == SkipSpace(low, i + Len(Str_manage))
              IN a > i + Len(Str_manage) /\ ContainsAt(low, a, Str_preferences)
        \/ /\ ContainsAt(low, i, Str_view)
           /\ LET a == SkipSpace(low, i + Len(Str_view))
                  b == SkipSpace(low, a + Len(Str_in))
              IN /\ a > i + Len(Str_view)
                 /\ ContainsAt(low, a, Str_in)
                 /\ b > a + Len(Str_in)
                 /\ ContainsAt(low, b, Str_browser)

\* the checks on one original of the form [...]
BracketFalsePositive(orig) ==
    /\ StartsWith(orig, <<"[">>)
    /\ EndsWith(orig, <<"]">>)
    /\ LET content == Strip(Slice(orig, 1, Len(orig) - 1))
       IN \/ AllDigits(content)
          \/ IsNumberedClause(content)
          \/ IsSectionRef(content)
          \/ IsExhibitTag(content)
          \/ Lower(Strip(content)) \in ignore_acronyms
          \/ IsBoilerplate(content)
          \/ Len(content) = 1

\* whether the loop of reduce_false_positives copies the entry to `filtered`
FilterKeeps(normalized, originals) ==
    LET occurrence_count == Len(originals) IN
    /\ ~AllDigits(normalized)
    /\ ~Contains(Lower(normalized), Str_section)
    /\ Len(normalized) # 1
    /\ ~\E k \in 1..Len(originals) : BracketFalsePositive(originals[k])
    /\ ~(/\ occurrence_count = 1
         /\ ~HasChar(normalized, "_")
         /\ Len(normalized) <= 3
         /\ normalized \notin allow_short_singletons)
    /\ (occurrence_count >= 2 \/ HasChar(normalized, "_") \/ Len(normalized) > 3)

FilterKeepsEntry(entry) == FilterKeeps(entry.key, entry.originals)

reduce_false_positives(placeholders) == SelectSeq(placeholders, FilterKeepsEntry)

\* ------------------------------------------------------------ texts of the model

\* The paragraphs and answers the specification and the tests name, written
\* out character by character.

\* This Agreement is between {{COMPANY_NAME}} and {{CLIENT_NAME}}, dated [Effective Date].
Txt_agreement ==
    <<"T","h","i","s"," ","A","g","r","e","e","m","e","n","t"," ","i","s"," ","b","e","t","w",
      "e","e","n"," ","{","{","C","O","M","P","A","N","Y","_","N","A","M","E","}","}"," ","a",
      "n","d"," ","{","{","C","L","I","E","N","T","_","N","A","M","E","}","}",","," ","d","a",
      "t","e","d"," ","[","E","f","f","e","c","t","i","v","e"," ","D","a","t","e","]",".">>

\* This Agreement is between Acme Corp and Jane Doe, dated March 1, 2025.
Txt_agreement_filled ==
    <<"T","h","i","s"," ","A","g","r","e","e","m","e","n","t"," ","i","s"," ","b","e","t","w",
      "e","e","n"," ","A","c","m","e"," ","C","o","r","p"," ","a","n","d"," ","J","a","n","e",
      " ","D","o","e",","," ","d","a","t","e","d"," ","M","a","r","c","h"," ","1",","," ","2",
      "0","2","5",".">>

\* Address:
Txt_address ==
    <<"A","d","d","r","e","s","s",":">>

\* Address: 123 Main St
Txt_address_filled ==
    <<"A","d","d","r","e","s","s",":"," ","1","2","3"," ","M","a","i","n"," ","S","t">>

\* Address:<TAB><TAB><TAB>
Txt_address_tabs ==
    <<"A","d","d","r","e","s","s",":","\t","\t","\t">>

\* {{X}}
Txt_X ==
    <<"{","{","X","}","}">>

\* [Company Name]
Txt_company ==
    <<"[","C","o","m","p","a","n","y"," ","N","a","m","e","]">>

\* See [Section 2(a)] and {{COMPANY_NAME}}.
Txt_section ==
    <<"S","e","e"," ","[","S","e","c","t","i","o","n"," ","2","(","a",")","]"," ","a","n","d",
      " ","{","{","C","O","M","P","A","N","Y","_","N","A","M","E","}","}",".">>

\* [LLC] and {{CLIENT_NAME}}
Txt_llc ==
    <<"[","L","L","C","]"," ","a","n","d"," ","{","{","C","L","I","E","N","T","_","N","A","M",
      "E","}","}">>

\* See [Exhibit A] for {{CLIENT_NAME}}
Txt_exhibit ==
    <<"S","e","e"," ","[","E","x","h","i","b","i","t"," ","A","]"," ","f","o","r"," ","{","{",
      "C","L","I","E","N","T","_","N","A","M","E","}","}">>

\* Signed by: _____ on date: _____
Txt_signed ==
    <<"S","i","g","n","e","d"," ","b","y",":"," ","_","_","_","_","_"," ","o","n"," ","d","a",
      "t","e",":"," ","_","_","_","_","_">>

\* company_name
Key_company_name ==
    <<"c","o","m","p","a","n","y","_","n","a","m","e">>

\* client_name
Key_client_name ==
    <<"c","l","i","e","n","t","_","n","a","m","e">>

\* effective_date
Key_effective_date ==
    <<"e","f","f","e","c","t","i","v","e","_","d","a","t","e">>

\* ab
Key_ab ==
    <<"a","b">>

\* ab_c
Key_ab_c ==
    <<"a","b","_","c">>

\* field_1
Key_field_1 ==
    <<"f","i","e","l","d","_","1">>

\* amount_1
Key_amount_1 ==
    <<"a","m","o","u","n","t","_","1">>

\* Acme Corp
Val_acme ==
    <<"A","c","m","e"," ","C","o","r","p">>

\* Jane Doe
Val_jane ==
    <<"J","a","n","e"," ","D","o","e">>

\* March 1, 2025
Val_march ==
    <<"M","a","r","c","h"," ","1",","," ","2","0","2","5">>

\* 123 Main St
Val_main_st ==
    <<"1","2","3"," ","M","a","i","n"," ","S","t">>

\* Jo
Val_jo ==
    <<"J","o">>

\* v
Val_v ==
    <<"v">>

\* x
Val_x ==
    <<"x">>

\* 9
Val_9 ==
    <<"9">>

\* OVR
Val_override ==
    <<"O","V","R">>

\* {{ab}}
Frag_double ==
    <<"{","{","a","b","}","}">>

\* {ab}
Frag_single ==
    <<"{","a","b","}">>

\* [Ab c]
Frag_square ==
    <<"[","A","b"," ","c","]">>

\* ___
Frag_underscore ==
    <<"_","_","_">>

\* $[___]
Frag_dollar ==
    <<"$","[","_","_","_","]">>

\* Name:
Frag_name ==
    <<"N","a","m","e",":">>

\*  
Frag_space ==
    <<" ">>

\* {
Frag_open ==
    <<"{">>

\* x ___ y ___
Para_two_blanks ==
    <<"x"," ","_","_","_"," ","y"," ","_","_","_">>

\* Date: ___
Para_date ==
    <<"D","a","t","e",":"," ","_","_","_">>

\* ___ {{field_1}}
Txt_blank_field_1 ==
    <<"_","_","_"," ","{","{","f","i","e","l","d","_","1","}","}">>

\* ------------------------------------------------------------ documents of the model

\* the number of fragments a generated paragraph is put together from
MaxFrags == 2
\* the number of body paragraphs of a generated document
MaxBody == 1
\* the number of detections run on the uploaded document
MaxRuns == 2

Fragments == { Frag_double, Frag_single, Frag_square, Frag_underscore, Frag_dollar,
               Frag_name, Frag_space, Frag_open }

RECURSIVE TextsOf(_)
TextsOf(n) == IF n = 0 THEN {<<>>} ELSE {t \o f : t \in TextsOf(n - 1), f \in Fragments}

ParagraphPool == { Frag_underscore, Para_two_blanks, Para_date, Frag_dollar, Txt_address }

RECURSIVE BodiesOf(_)
BodiesOf(n) == IF n = 0 THEN {<<>>} ELSE {Append(b, p) : b \in BodiesOf(n - 1), p \in ParagraphPool}

\* one row of two cells
TableA == << << <<Frag_underscore>>, <<Txt_address>> >> >>
\* two rows of one cell; the first cell holds two paragraphs
TableB == << << <<Frag_dollar, Frag_underscore>> >>, << <<Frag_double>> >> >>

OneParagraph(t) == [body |-> <<t>>, tables |-> <<>>]

AgreementDoc == OneParagraph(Txt_agreement)
AddressDoc == OneParagraph(Txt_address)

ScenarioDocs ==
    { AgreementDoc, AddressDoc, OneParagraph(Txt_address_tabs), OneParagraph(Txt_X),
      OneParagraph(Txt_company), OneParagraph(Txt_section), OneParagraph(Txt_llc),
      OneParagraph(Txt_exhibit), OneParagraph(Txt_signed),
      OneParagraph(Txt_blank_field_1) }

FragmentDocs == {OneParagraph(t) : t \in UNION {TextsOf(n) : n \in 1..MaxFrags}}

TableDocs ==
    {[body |-> b, tables |-> ts] : b \in UNION {BodiesOf(n) : n \in 0..MaxBody},
                                   ts \in {<<>>, <<TableA, TableB>>}}

Docs == ScenarioDocs \cup FragmentDocs \cup TableDocs

AgreementAnswers ==
    << [key |-> Key_company_name, value |-> Val_acme],
       [key |-> Key_client_name, value |-> Val_jane],
       [key |-> Key_effective_date, value |-> Val_march] >>
AddressAnswers == << [key |-> Str_address, value |-> Val_main_st] >>
FragmentAnswers ==
    << [key |-> Key_ab, value |-> Val_acme], [key |-> Key_ab_c, value |-> Val_v],
       [key |-> Str_name, value |-> Val_jo], [key |-> Key_amount_1, value |-> Val_9] >>
CounterAnswers == << [key |-> Key_field_1, value |-> Val_x] >>

AnswerChoices == { <<>>, AddressAnswers, FragmentAnswers, CounterAnswers }

\* a key and its upper-case spelling, answered differently
VariantAnswers ==
    << [key |-> Key_ab, value |-> Val_acme], [key |-> Upper(Key_ab), value |-> Val_x] >>

\* the answers a session may hold for the document d
AnswersFor(d) ==
    IF d = AgreementDoc THEN AnswerChoices \cup {AgreementAnswers}
    ELSE IF d = OneParagraph(Frag_double) THEN AnswerChoices \cup {VariantAnswers}
    ELSE AnswerChoices

\* the instance ids detection gives the placeholders of the document's body
IdsOf(kept) == {InstanceId(kept[j].locator, kept[j].start, kept[j].end) : j \in 1..Len(kept)}
InstanceIdsIn(paras) == UNION {IdsOf(KeptOf(paras[k])) : k \in 1..Len(paras)}
InstanceIdsOf(d) == InstanceIdsIn(BodyParagraphs(d))

\* no override, or one instance answered on its own
OverrideChoices(d) ==
    {<<>>} \cup {<<[id |-> i, answer |-> Val_override]>> : i \in InstanceIdsOf(d)}

\* ------------------------------------------------------------ the state machine

VARIABLES
    doc,        \* the uploaded document
    answers,    \* session['answers']
    overrides,  \* session['answers_overrides']
    active,     \* the call in progress: "none", "detect" or "fill"
    det,        \* the locals of the detect_placeholders_with_context call
    results,    \* what the detections so far returned
    fil,        \* the locals of the replace_placeholders call
    completed,  \* the document replace_placeholders saved
    txt,        \* the string a library function is applied to
    out,        \* what the function returned for it
    calls,      \* the library calls of concurrent requests, each with its frame
    cells,      \* the objects the calls have allocated for their locals
    session,    \* the Flask session of a client, a dict
    files,      \* the files of the session's upload folder, by path
    response,   \* what the last request returned
    now,        \* the reading of the clock
    paragraph,  \* a paragraph replace_placeholders works on, with its runs
    tracker,    \* _rate_limit_tracker of the LLM service
    models,     \* the models the LLM service is configured to try, in order
    clock,      \* datetime.now() of the LLM service, in seconds
    reply       \* what the last question generation did and returned

libvars == <<doc, answers, overrides, active, det, results, fil, completed>>
textvars == <<txt, out>>
concvars == <<calls, cells>>
sessvars == <<session, files, response, now>>
runvars == <<paragraph>>
llmvars == <<tracker, models, clock, reply>>
othervars == <<textvars, concvars, sessvars, runvars, llmvars>>
nontext == <<libvars, concvars, sessvars, runvars, llmvars>>
nonconc == <<libvars, textvars, sessvars, runvars, llmvars>>
nonsess == <<libvars, textvars, concvars, runvars, llmvars>>
nonrun == <<libvars, textvars, concvars, sessvars, llmvars>>
nonllm == <<libvars, textvars, concvars, sessvars, runvars>>
vars == <<libvars, textvars, concvars, sessvars, runvars, llmvars>>


\* no library function has been applied to a string
NoOutput ==
    [stage |-> "none", once |-> <<>>, twice |-> <<>>, collected |-> <<>>, kept |-> <<>>,
     placeholders |-> <<>>, candidates |-> <<>>, filtered |-> <<>>]
TextIdle == txt = <<>> /\ out = NoOutput

\* no concurrent calls
ConcIdle == calls = <<>> /\ cells = <<>>

\* no request has been made: the session dict and its folder are empty
EmptyDict == [x \in {} |-> x]
NoResponse == [route |-> "none"]

SessIdle ==
    /\ session = EmptyDict
    /\ files = EmptyDict
    /\ response = NoResponse
    /\ now = 0

\* no paragraph is being worked on
NoParagraph ==
    [step |-> "none", original |-> <<>>, runs |-> <<>>, answers |-> <<>>,
     substituted |-> FALSE, appended |-> FALSE]
RunIdle == paragraph = NoParagraph

\* _rate_limit_tracker as the module is loaded, and no question asked for
RateLimitTracker == [requests |-> <<>>, max_per_minute |-> 15]
NoReply == [source |-> "none", model |-> "none", sends |-> <<>>]

LlmIdle ==
    /\ tracker = RateLimitTracker
    /\ models = <<>>
    /\ clock = 0
    /\ reply = NoReply

Init ==
    /\ doc \in Docs
    /\ answers \in AnswersFor(doc)
    /\ overrides \in OverrideChoices(doc)
    /\ active = "none"
    /\ det = [idx |-> 0, kept |-> <<>>, underscore_counter |-> 0,
              placeholders |-> <<>>, candidates |-> <<>>]
    /\ results = <<>>
    /\ fil = [idx |-> 0, lookup |-> <<>>, underscore_counter |-> 0, existing_keys |-> {},
              texts |-> <<>>, matches |-> <<>>]
    /\ completed = [saved |-> FALSE, texts |-> <<>>]
    /\ TextIdle
    /\ ConcIdle
    /\ SessIdle
    /\ RunIdle
    /\ LlmIdle

\* locals that survive from the call before
DetectInitStale ==
    [underscore_counter |-> det.underscore_counter, placeholders |-> <<>>, candidates |-> <<>>]

\* the locals a detection starts from
DetectInit == [underscore_counter |-> 0, placeholders |-> <<>>, candidates |-> <<>>]

\* detect_placeholders_with_context is entered: the document is opened and the
\* locals are set up
DetectStart ==
    /\ active = "none"
    /\ Len(results) < MaxRuns
    /\ active' = "detect"
    /\ det' = [idx |-> 0, kept |-> <<>>,
               underscore_counter |-> DetectInit.underscore_counter,
               placeholders |-> DetectInit.placeholders,
               candidates |-> DetectInit.candidates]
    /\ UNCHANGED <<doc, answers, overrides, results, fil, completed>>
    /\ UNCHANGED othervars

DetectFrame(frame, kept, d) ==
    [idx |-> frame.idx + 1, kept |-> kept, underscore_counter |-> d.underscore_counter,
     placeholders |-> d.placeholders, candidates |-> d.candidates]

\* process_kept(kept) on the locals of the call
DetectKept(frame, kept) ==
    DetectFrame(frame, kept,
                process_kept([underscore_counter |-> frame.underscore_counter,
                              placeholders |-> frame.placeholders,
                              candidates |-> frame.candidates], kept))

\* one iteration of the traversal loops: the next paragraph is collected,
\* arbitrated and processed
DetectStep ==
    /\ active = "detect"
    /\ det.idx < Len(Traversal(doc))
    /\ det' = DetectKept(det, KeptOf(Traversal(doc)[det.idx + 1]))
    /\ UNCHANGED <<doc, answers, overrides, active, results, fil, completed>>
    /\ UNCHANGED othervars

\* the dict the call returns
Returned(r) ==
    [placeholders |-> r.placeholders, candidates |-> r.candidates,
     groups |-> BuildGroups(<<>>, r.candidates)]

\* the groups are built and the call returns
DetectReturn ==
    /\ active = "detect"
    /\ det.idx = Len(Traversal(doc))
    /\ results' = Append(results, Returned(det))
    /\ active' = "none"
    /\ UNCHANGED <<doc, answers, overrides, det, fil, completed>>
    /\ UNCHANGED othervars

\* replace_placeholders is entered: the document is opened, the lookup built,
\* the counters set
FillStart ==
    /\ active = "none"
    /\ ~completed.saved
    /\ active' = "fill"
    /\ fil' = [idx |-> 0, lookup |-> build_placeholder_lookup(answers),
               underscore_counter |-> FillInit.underscore_counter,
               existing_keys |-> FillInit.existing_keys,
               texts |-> [k \in 1..Len(Traversal(doc)) |-> Traversal(doc)[k].text],
               matches |-> <<>>]
    /\ UNCHANGED <<doc, answers, overrides, det, results, completed>>
    /\ UNCHANGED othervars

ReplaceIn(frame, ovr, para) ==
    replace_in_paragraph([underscore_counter |-> frame.underscore_counter,
                          existing_keys |-> frame.existing_keys],
                         frame.lookup, ovr, para.text, para.locator)

FillFrame(frame, r) ==
    [idx |-> frame.idx + 1, lookup |-> frame.lookup,
     underscore_counter |-> r.f.underscore_counter,
     existing_keys |-> r.f.existing_keys,
     texts |-> [frame.texts EXCEPT ![frame.idx + 1] = r.text],
     matches |-> frame.matches \o r.matches]

\* one iteration of the paragraph loops: _replace_in_paragraph on the next paragraph
FillStep ==
    /\ active = "fill"
    /\ fil.idx < Len(fil.texts)
    /\ fil' = FillFrame(fil, ReplaceIn(fil, overrides, Traversal(doc)[fil.idx + 1]))
    /\ UNCHANGED <<doc, answers, overrides, active, det, results, completed>>
    /\ UNCHANGED othervars

\* the signature labels are filled, the document is saved and the call returns
FillSave ==
    /\ active = "fill"
    /\ fil.idx = Len(fil.texts)
    /\ completed' = [saved |-> TRUE, texts |-> fill_signature_labels(fil.lookup, fil.texts)]
    /\ active' = "none"
    /\ UNCHANGED <<doc, answers, overrides, det, results, fil>>
    /\ UNCHANGED othervars

Next ==
    \/ DetectStart
    \/ DetectStep
    \/ DetectReturn
    \/ FillStart
    \/ FillStep
    \/ FillSave

Spec == Init /\ [][Next]_vars

TypeOK ==
    /\ active \in {"none", "detect", "fill"}
    /\ det.idx \in 0..Len(Traversal(doc))
    /\ fil.idx \in 0..Len(Traversal(doc))
    /\ Len(results) \in 0..MaxRuns
    /\ completed.saved \in BOOLEAN

\* ------------------------------------------------------------ library functions on one string

\* no document is being detected or filled
LibIdle ==
    /\ doc = [body |-> <<>>, tables |-> <<>>]
    /\ answers = <<>>
    /\ overrides = <<>>
    /\ active = "none"
    /\ det = [idx |-> 0, kept |-> <<>>, underscore_counter |-> 0,
              placeholders |-> <<>>, candidates |-> <<>>]
    /\ results = <<>>
    /\ fil = [idx |-> 0, lookup |-> <<>>, underscore_counter |-> 0, existing_keys |-> {},
              texts |-> <<>>, matches |-> <<>>]
    /\ completed = [saved |-> FALSE, texts |-> <<>>]

\* the names normalize_placeholder_name is applied to: strings of at most
\* MaxNameLen characters, with letters of both cases, a digit, the underscore,
\* the hyphen, the space and the tab
MaxNameLen == 4
NameChars == {"A", "b", "1", "_", "-", " ", "\t"}

RECURSIVE StringsOver(_, _)
StringsOver(chars, n) ==
    IF n = 0 THEN {<<>>}
    ELSE StringsOver(chars, n - 1)
         \cup {Append(w, c) : w \in StringsOver(chars, n - 1), c \in chars}

Names == StringsOver(NameChars, MaxNameLen)

\* the paragraph texts the candidates are collected from: at most MaxPieces
\* pieces, each a delimiter, an underscore run, a letter, a space or a
\* signature label
MaxPieces == 4
Pieces == { <<"{", "{">>, <<"}", "}">>, <<"{">>, <<"}">>, <<"[">>, <<"]">>, <<"$", "[">>,
            <<"_", "_", "_">>, <<"a">>, <<" ">>, <<"N", "a", "m", "e", ":">> }

RECURSIVE TextsOver(_, _)
TextsOver(pieces, n) ==
    IF n = 0 THEN {<<>>}
    ELSE TextsOver(pieces, n - 1)
         \cup {w \o c : w \in TextsOver(pieces, n - 1), c \in pieces}

Paragraphs == TextsOver(Pieces, MaxPieces)

\* the paragraphs of one word: a label of the signature lines or another short
\* word, in three spellings, as a line with or without a colon and with text or
\* leaders around it, or as a placeholder
Str_abc == <<"a", "b", "c">>

SampleWords ==
    { Str_address, Str_email, Str_e_mail, Str_phone, Str_name, Str_title, Str_by,
      Key_ab, Str_abc }

Spellings(w) == {w, Title(w), Upper(w)}

LineFrames ==
    { [pre |-> a, post |-> b] :
        a \in {<<>>, <<" ">>, <<"x", " ">>},
        b \in {<<>>, <<":">>, <<":", " ">>, <<" ", ":">>, <<":", "_", "_", "_">>,
               <<":", " ", "x">>, <<" ", "x">>} }

PlaceholderFrames ==
    { [pre |-> <<"{", "{">>, post |-> <<"}", "}">>], [pre |-> <<"{">>, post |-> <<"}">>],
      [pre |-> <<"[">>, post |-> <<"]">>] }

WordParagraphs ==
    { f.pre \o w \o f.post :
        w \in UNION {Spellings(v) : v \in SampleWords},
        f \in LineFrames \cup PlaceholderFrames }

TextInit ==
    /\ LibIdle
    /\ ConcIdle
    /\ SessIdle
    /\ RunIdle
    /\ LlmIdle
    /\ \/ txt \in Names /\ out = [NoOutput EXCEPT !.stage = "name"]
       \/ txt \in Paragraphs \cup WordParagraphs
             /\ out = [NoOutput EXCEPT !.stage = "paragraph"]

\* normalize_placeholder_name(txt)
NormalizeOnce ==
    /\ out.stage = "name"
    /\ out' = [out EXCEPT !.stage = "once", !.once = normalize_placeholder_name(txt)]
    /\ UNCHANGED <<nontext, txt>>

\* normalize_placeholder_name on what the first call returned
NormalizeTwice ==
    /\ out.stage = "once"
    /\ out' = [out EXCEPT !.stage = "twice", !.twice = normalize_placeholder_name(out.once)]
    /\ UNCHANGED <<nontext, txt>>

\* arbitrate(collect_candidates(txt, "p0"))
Arbitrated(o, collected) ==
    [o EXCEPT !.stage = "arbitrated", !.collected = collected, !.kept = arbitrate(collected)]

CollectAndArbitrate ==
    /\ out.stage = "paragraph"
    /\ out' = Arbitrated(out, collect_candidates(txt, BodyLocator(0)))
    /\ UNCHANGED <<nontext, txt>>

\* process_kept(kept) from the locals of a new detection
Processed(o, d) ==
    [o EXCEPT !.stage = "processed", !.placeholders = d.placeholders,
              !.candidates = d.candidates]

ProcessKept ==
    /\ out.stage = "arbitrated"
    /\ out' = Processed(out, process_kept(DetectInit, out.kept))
    /\ UNCHANGED <<nontext, txt>>

\* reduce_false_positives on the field map of the detection
FilterFields ==
    /\ out.stage = "processed"
    /\ out' = [out EXCEPT !.stage = "filtered",
                          !.filtered = reduce_false_positives(out.placeholders)]
    /\ UNCHANGED <<nontext, txt>>

TextNext ==
    \/ NormalizeOnce
    \/ NormalizeTwice
    \/ CollectAndArbitrate
    \/ ProcessKept
    \/ FilterFields

TextSpec == TextInit /\ [][TextNext]_vars

\* ------------------------------------------------------------ whole calls

\* detect_placeholders_with_context on the paragraphs that are left
RECURSIVE DetectFrom(_, _)
DetectFrom(d, paras) ==
    IF paras = <<>> THEN d
    ELSE DetectFrom(process_kept(d, KeptOf(Head(paras))), Tail(paras))

\* detect_placeholders_with_context on a whole document
DetectAll(d) == Returned(DetectFrom(DetectInit, Traversal(d)))

\* replace_placeholders on the paragraphs that are left: done holds the new
\* texts and the logged matches of the paragraphs before them
RECURSIVE FillFrom(_, _, _, _, _)
FillRest(r, lookup, ovr, paras, done) ==
    FillFrom(r.f, lookup, ovr, paras,
             [texts |-> Append(done.texts, r.text), matches |-> done.matches \o r.matches])

FillFrom(f, lookup, ovr, paras, done) ==
    IF paras = <<>> THEN done
    ELSE FillRest(replace_in_paragraph(f, lookup, ovr, Head(paras).text, Head(paras).locator),
                  lookup, ovr, Tail(paras), done)

\* the signature labels are filled and the document is saved
FillDone(lookup, done) ==
    [texts |-> fill_signature_labels(lookup, done.texts), matches |-> done.matches]

FillWith(d, lookup, ovr) ==
    FillDone(lookup, FillFrom(FillInit, lookup, ovr, Traversal(d),
                              [texts |-> <<>>, matches |-> <<>>]))

\* replace_placeholders on a whole document: the texts of the saved document in
\* traversal order, and the matches it logged
FillAll(d, ans, ovr) == FillWith(d, build_placeholder_lookup(ans), ovr)

\* ------------------------------------------------------------ concurrent calls

\* the requests of a threaded server run the library calls side by side; every
\* call allocates the objects of its locals (the counter cell, the dicts, the
\* lists) when it is entered
MaxCalls == 2

Key_field_2 == <<"f","i","e","l","d","_","2">>

ConcDocs ==
    { [body |-> <<Para_two_blanks, Frag_dollar>>, tables |-> <<>>],
      [body |-> <<Frag_dollar, Frag_underscore>>, tables |-> <<>>],
      [body |-> <<Frag_underscore>>, tables |-> <<TableB>>] }

ConcAnswers ==
    << [key |-> Key_field_1, value |-> Val_x], [key |-> Key_field_2, value |-> Val_jo],
       [key |-> Key_amount_1, value |-> Val_9] >>

IdleCall(op, d) ==
    [op |-> op, doc |-> d, pc |-> "idle", idx |-> 0, cell |-> 0, result |-> <<>>]

ConcInit ==
    /\ LibIdle
    /\ TextIdle
    /\ SessIdle
    /\ RunIdle
    /\ LlmIdle
    /\ calls \in [1..MaxCalls -> {IdleCall(op, d) : op \in {"detect", "fill"}, d \in ConcDocs}]
    /\ cells = <<>>

\* the locals a call sets up on entry
LocalsOf(op, d) ==
    IF op = "detect"
    THEN [underscore_counter |-> DetectInit.underscore_counter,
          placeholders |-> DetectInit.placeholders, candidates |-> DetectInit.candidates,
          existing_keys |-> {}, lookup |-> <<>>, texts |-> <<>>, matches |-> <<>>]
    ELSE [underscore_counter |-> FillInit.underscore_counter,
          placeholders |-> <<>>, candidates |-> <<>>,
          existing_keys |-> FillInit.existing_keys,
          lookup |-> build_placeholder_lookup(ConcAnswers),
          texts |-> [k \in 1..Len(Traversal(d)) |-> Traversal(d)[k].text],
          matches |-> <<>>]

\* one object for the locals of every call
FirstCell(heap) == 1

\* the address of a newly allocated object
NewCell(heap) == Len(heap) + 1

Alloc(heap, a, v) == IF a > Len(heap) THEN Append(heap, v) ELSE [heap EXCEPT ![a] = v]

Entered(c, a) == [c EXCEPT !.pc = "running", !.cell = a]

CallStartAt(i, a) ==
    /\ cells' = Alloc(cells, a, LocalsOf(calls[i].op, calls[i].doc))
    /\ calls' = [calls EXCEPT ![i] = Entered(@, a)]

\* call i is entered
CallStart(i) ==
    /\ calls[i].pc = "idle"
    /\ CallStartAt(i, NewCell(cells))
    /\ UNCHANGED nonconc

DetectLocals(l, d) ==
    [l EXCEPT !.underscore_counter = d.underscore_counter,
              !.placeholders = d.placeholders, !.candidates = d.candidates]

FillLocals(l, k, r) ==
    [l EXCEPT !.underscore_counter = r.f.underscore_counter,
              !.existing_keys = r.f.existing_keys,
              !.texts = [@ EXCEPT ![k] = r.text],
              !.matches = @ \o r.matches]

\* the locals l after the call has processed the paragraph para, its k-th
StepLocals(op, l, k, para) ==
    IF op = "detect"
    THEN DetectLocals(l, process_kept([underscore_counter |-> l.underscore_counter,
                                       placeholders |-> l.placeholders,
                                       candidates |-> l.candidates], KeptOf(para)))
    ELSE FillLocals(l, k, replace_in_paragraph(
                             [underscore_counter |-> l.underscore_counter,
                              existing_keys |-> l.existing_keys],
                             l.lookup, <<>>, para.text, para.locator))

\* call i processes its next paragraph
CallStep(i) ==
    /\ calls[i].pc = "running"
    /\ calls[i].idx < Len(Traversal(calls[i].doc))
    /\ cells' = [cells EXCEPT ![calls[i].cell] =
                    StepLocals(calls[i].op, @, calls[i].idx + 1,
                               Traversal(calls[i].doc)[calls[i].idx + 1])]
    /\ calls' = [calls EXCEPT ![i].idx = @ + 1]
    /\ UNCHANGED nonconc

ResultOf(op, l) ==
    IF op = "detect" THEN Returned(l)
    ELSE FillDone(l.lookup, [texts |-> l.texts, matches |-> l.matches])

\* call i returns
CallReturn(i) ==
    /\ calls[i].pc = "running"
    /\ calls[i].idx = Len(Traversal(calls[i].doc))
    /\ calls' = [calls EXCEPT ![i].pc = "done",
                              ![i].result = ResultOf(calls[i].op, cells[calls[i].cell])]
    /\ UNCHANGED <<cells, nonconc>>

ConcNext ==
    \/ \E i \in 1..MaxCalls : CallStart(i)
    \/ \E i \in 1..MaxCalls : CallStep(i)
    \/ \E i \in 1..MaxCalls : CallReturn(i)

ConcSpec == ConcInit /\ [][ConcNext]_vars

\* ------------------------------------------------------------ detect_placeholders

\* the quote class ['\"""] of detect_placeholders
PlainQuotes == {"'", "\""}

\* the state p of detect_placeholders is (underscore_counter, placeholders)
Added(p, counter, normalized, original) ==
    [underscore_counter |-> counter,
     placeholders |-> AddOriginal(p.placeholders, normalized, original)]

TextUnderscore(p, c, ul) ==
    IF ul.found THEN Added(p, p.underscore_counter, ul.key, c.original)
    ELSE Added(p, p.underscore_counter + 1,
               Str_field_ \o IntToStr(p.underscore_counter + 1), c.original)

TextDollar(p, c, dl) ==
    Added(p, p.underscore_counter,
          IF dl.found THEN dl.key
          ELSE Str_amount_ \o IntToStr(CountAmountKeys(Keys(p.placeholders)) + 1),
          c.original)

\* the body of process_text's inner loop on the match c
ProcessMatch(p, c) ==
    CASE c.kind = "underscore" ->
            TextUnderscore(p, c, UnderscoreLabelKey(c.text, c.start))
      [] c.kind = "dollar_underscore" ->
            TextDollar(p, c, DollarLabelKey(c.text, c.start, c.end, PlainQuotes))
      [] OTHER ->
            Added(p, p.underscore_counter, normalize_placeholder_name(c.captured),
                  c.original)

RECURSIVE ProcessMatches(_, _)
ProcessMatches(p, ms) ==
    IF ms = <<>> THEN p ELSE ProcessMatches(ProcessMatch(p, Head(ms)), Tail(ms))

\* every match of every pattern, pattern by pattern: no match gives way to another
process_text(p, t) ==
    IF AllSpace(t) THEN p
    ELSE ProcessMatches(p, ConcatAll([k \in 1..Len(patterns) |->
                                        PatternCandidates(patterns[k], t, <<>>)]))

RECURSIVE ProcessTexts(_, _)
ProcessTexts(p, paras) ==
    IF paras = <<>> THEN p
    ELSE ProcessTexts(process_text(p, Head(paras).text), Tail(paras))

\* the signature_labels of detect_placeholders
bare_signature_labels ==
    << [label |-> Str_address \o <<":">>, key |-> Str_address],
       [label |-> Str_email \o <<":">>,   key |-> Str_email],
       [label |-> Str_phone \o <<":">>,   key |-> Str_phone],
       [label |-> Str_by \o <<":">>,      key |-> Str_by] >>

\* placeholders.setdefault(key, []).append(original)
AppendOriginal(placeholders, key, original) ==
    IF HasKey(placeholders, key)
    THEN [k \in 1..Len(placeholders) |->
            IF placeholders[k].key = key
            THEN [placeholders[k] EXCEPT !.originals = Append(@, original)]
            ELSE placeholders[k]]
    ELSE Append(placeholders, [key |-> key, originals |-> <<original>>])

add_label_placeholder(placeholders, entry) ==
    AppendOriginal(placeholders, normalize_placeholder_name(entry.key), entry.label)

BareLabels(low) ==
    {k \in 1..Len(bare_signature_labels) : bare_signature_labels[k].label = low}

LabelScanned(placeholders, hits) ==
    IF hits = {} THEN placeholders
    ELSE add_label_placeholder(placeholders, bare_signature_labels[FirstOf(hits)])

scan_for_bare_labels(placeholders, t) ==
    LabelScanned(placeholders, BareLabels(Lower(Strip(t))))

RECURSIVE ScanTexts(_, _)
ScanTexts(placeholders, paras) ==
    IF paras = <<>> THEN placeholders
    ELSE ScanTexts(scan_for_bare_labels(placeholders, Head(paras).text), Tail(paras))

DetectedIn(paras) ==
    ScanTexts(ProcessTexts([underscore_counter |-> 0, placeholders |-> <<>>],
                           paras).placeholders, paras)

\* the dict {normalized: [originals]} of a document, in insertion order
detect_placeholders(d) == DetectedIn(Traversal(d))

\* {name: len(originals)}
get_placeholder_count(placeholders) ==
    [k \in 1..Len(placeholders) |->
        [key |-> placeholders[k].key, count |-> Len(placeholders[k].originals)]]

RECURSIVE SumLens(_)
SumLens(placeholders) ==
    IF placeholders = <<>> THEN 0
    ELSE Len(Head(placeholders).originals) + SumLens(Tail(placeholders))

get_total_occurrences(placeholders) == SumLens(placeholders)

IsAlnum(c) == IsAlpha(c) \/ IsDigit(c)

\* the pattern type group_similar_placeholders reads off an original
PatternTypesOf(orig) ==
    IF StartsWith(orig, <<"{","{">>) /\ EndsWith(orig, <<"}","}">>) THEN {"double_curly"}
    ELSE IF StartsWith(orig, <<"{">>) /\ EndsWith(orig, <<"}">>) THEN {"single_curly"}
    ELSE IF StartsWith(orig, <<"[">>) /\ EndsWith(orig, <<"]">>) THEN {"square_bracket"}
    ELSE IF StartsWith(orig, <<"$","[">>) \/ StartsWith(orig, <<"$"," ","[">>)
         THEN {"dollar_underscore"}
    ELSE IF HasChar(orig, "_") /\ ~\E i \in 1..Len(orig) : IsAlnum(orig[i])
         THEN {"underscore"}
    ELSE {}

group_similar_placeholders(placeholders) ==
    [k \in 1..Len(placeholders) |->
        [normalized |-> placeholders[k].key,
         variants |-> placeholders[k].originals,
         count |-> Len(placeholders[k].originals),
         patterns |-> UNION {PatternTypesOf(placeholders[k].originals[i]) :
                              i \in 1..Len(placeholders[k].originals)}]]

get_placeholder_summary(placeholders) ==
    [total_unique |-> Len(placeholders),
     total_occurrences |-> get_total_occurrences(placeholders),
     placeholders |-> [k \in 1..Len(placeholders) |-> placeholders[k].key],
     counts |-> get_placeholder_count(placeholders),
     grouped |-> group_similar_placeholders(placeholders)]

\* ------------------------------------------------------------ the session

\* The routes keep their state in the Flask session, a dict, and in the files
\* of the session's upload folder. A dict is a function from its present keys;
\* the dict of answers is a sequence of (key, value) in insertion order.
Has(s, k) == k \in DOMAIN s
Get(s, k, default) == IF k \in DOMAIN s THEN s[k] ELSE default
Put(s, k, v) == [x \in DOMAIN s \cup {k} |-> IF x = k THEN v ELSE s[x]]
Pop(s, k) == [x \in DOMAIN s \ {k} |-> s[x]]

\* the clock readings of a behaviour: a tick is any lapse of at least a second
MaxClock == 1

\* the names files are uploaded under
UploadNames == {"a"}

\* {{raw}} and [Company Name] [Company Name]
Txt_raw_company ==
    <<"{","{","r","a","w","}","}"," ","a","n","d"," ","[","C","o","m","p","a","n","y"," ",
      "N","a","m","e","]"," ","[","C","o","m","p","a","n","y"," ","N","a","m","e","]">>
\* [ID] [ID]
Txt_id_twice ==
    <<"[","I","D","]"," ","[","I","D","]">>
\* {{ab}} {{ab}} {{ab}}
Txt_ab_thrice ==
    <<"{","{","a","b","}","}"," ","{","{","a","b","}","}"," ","{","{","a","b","}","}">>
\* raw
Key_raw ==
    <<"r","a","w">>
\* id
Key_id ==
    <<"i","d">>

RawDoc == [body |-> <<Txt_raw_company, Txt_id_twice>>, tables |-> <<>>]
IdDoc  == [body |-> <<Txt_id_twice>>, tables |-> <<>>]

SessionDocs == {RawDoc, IdDoc}

\* the placeholder names a client asks to answer, and the answer it gives
PlaceholderRequests == {Key_raw, Key_ab, Key_company_name}
AnswerRequests == {Val_x}

\* the paths of a session folder
UploadPath(name) == [kind |-> "upload", name |-> name, stamp |-> 0]
CompletedPath(name, stamp) == [kind |-> "completed", name |-> name, stamp |-> stamp]
PreviewPath(name, stamp) == [kind |-> "preview", name |-> name, stamp |-> stamp]

\* a file written to its end, and what is left of one whose write failed
Whole(data) == [whole |-> TRUE, data |-> data]
Partial == [whole |-> FALSE, data |-> <<>>]

Outcome(s, fs, r) == [session |-> s, files |-> fs, response |-> r]

\* the response for an exception of a route
handle_api_error(error, message) ==
    [success |-> FALSE, error |-> error, message |-> message]

Routed(route, r) == [x \in DOMAIN r \cup {"route"} |-> IF x = "route" THEN route ELSE r[x]]

\* ---- POST /upload of a valid file
WithSessionId(s, t) ==
    IF Has(s, "session_id") THEN s ELSE Put(Put(s, "session_id", "sid"), "created_at", t)

upload_file(s, fs, t, name, d) ==
    Outcome(Put(Put(WithSessionId(s, t), "uploaded_file",
                    [original_filename |-> name, safe_filename |-> name,
                     file_path |-> UploadPath(name), uploaded_at |-> t]),
                "last_activity", t),
            Put(fs, UploadPath(name), Whole(d)),
            [route |-> "upload", success |-> TRUE, status |-> 200, filename |-> name])

\* ---- POST /upload/clear
clear_upload(s, fs) ==
    Outcome(Pop(s, "uploaded_file"),
            IF Has(s, "uploaded_file") THEN Pop(fs, s["uploaded_file"].file_path) ELSE fs,
            [route |-> "upload_clear", success |-> TRUE, status |-> 200])

\* ---- POST /detect
Stored(s, t, raw, filtered, summary) ==
    Put(Put(s, "placeholders",
            [raw |-> raw, filtered |-> filtered, summary |-> summary, detected_at |-> t]),
        "last_activity", t)

DetectResponse(filtered, summary) ==
    [route |-> "detect", success |-> TRUE, status |-> 200,
     placeholders |-> filtered,
     summary |-> [total_unique |-> summary.total_unique,
                  total_occurrences |-> summary.total_occurrences,
                  placeholder_names |-> summary.placeholders,
                  counts |-> summary.counts],
     grouped |-> summary.grouped]

Summarised(s, fs, t, raw, filtered, summary) ==
    Outcome(Stored(s, t, raw, filtered, summary), fs, DetectResponse(filtered, summary))

Filtered(s, fs, t, raw, filtered) ==
    IF filtered = <<>>
    THEN Outcome(s, fs, [route |-> "detect", success |-> FALSE, status |-> 200,
                         error |-> "no_placeholders", raw_detected |-> Len(raw),
                         placeholders |-> <<>>])
    ELSE Summarised(s, fs, t, raw, filtered, get_placeholder_summary(filtered))

Detected(s, fs, t, raw) == Filtered(s, fs, t, raw, reduce_false_positives(raw))

detect(s, fs, t) ==
    IF ~Has(s, "uploaded_file")
    THEN Outcome(s, fs, [route |-> "detect", success |-> FALSE, status |-> 400,
                         error |-> "No file uploaded", placeholders |-> <<>>])
    ELSE IF ~Has(fs, s["uploaded_file"].file_path)
    THEN Outcome(s, fs, [route |-> "detect", success |-> FALSE, status |-> 404,
                         error |-> "file_not_found", placeholders |-> <<>>])
    ELSE Detected(s, fs, t, detect_placeholders(fs[s["uploaded_file"].file_path].data))

\* ---- POST /conversation/answer
FieldName(f) ==
    CASE f = "raw"         -> <<"r","a","w">>
      [] f = "filtered"    -> <<"f","i","l","t","e","r","e","d">>
      [] f = "summary"     -> <<"s","u","m","m","a","r","y">>
      [] f = "detected_at" -> <<"d","e","t","e","c","t","e","d","_","a","t">>

\* `placeholder in placeholders` on the dict stored by /detect
InPlaceholders(stored, placeholder) ==
    \E f \in DOMAIN stored : FieldName(f) = placeholder

\* answers[key] = value
SetAnswer(ans, key, value) ==
    IF \E k \in 1..Len(ans) : ans[k].key = key
    THEN [k \in 1..Len(ans) |-> IF ans[k].key = key THEN [ans[k] EXCEPT !.value = value]
                                ELSE ans[k]]
    ELSE Append(ans, [key |-> key, value |-> value])

submit_answer(s, fs, placeholder, answer) ==
    IF ~Has(s, "placeholders")
    THEN Outcome(s, fs, Routed("answer", handle_api_error("SessionExpiredError",
                                                        "Session expired")))
    ELSE IF ~InPlaceholders(s["placeholders"], placeholder)
    THEN Outcome(s, fs, [route |-> "answer", success |-> FALSE, status |-> 404,
                         placeholder |-> placeholder])
    ELSE Outcome(Put(s, "answers", SetAnswer(Get(s, "answers", <<>>), placeholder, answer)),
                 fs, [route |-> "answer", success |-> TRUE, status |-> 200,
                      placeholder |-> placeholder])

\* ---- POST /conversation/answer/instance
submit_instance_override(s, fs, instance_id, normalized, answer) ==
    IF ~Has(s, "placeholder_details")
    THEN Outcome(s, fs, Routed("override", handle_api_error("SessionExpiredError",
                                                          "Session expired")))
    ELSE IF instance_id \notin Get(s["placeholder_details"].groups, normalized, {})
    THEN Outcome(s, fs, [route |-> "override", success |-> FALSE, status |-> 400])
    ELSE Outcome(Put(s, "answers_overrides",
                     Append(Get(s, "answers_overrides", <<>>),
                            [id |-> instance_id, normalized |-> normalized,
                             answer |-> answer])),
                 fs, [route |-> "override", success |-> TRUE, status |-> 200])

\* ---- POST /conversation/reset
reset_conversation(s, fs) ==
    Outcome(Pop(s, "answers"), fs,
            [route |-> "reset", success |-> TRUE, status |-> 200])

\* ---- POST /preview/generate

\* where the environment makes the request fail: opening the document, the
\* k-th paragraph, the save (which leaves nothing or a part of the file it was
\* writing), the preview
Faults ==
    { [at |-> "none", k |-> 0, left |-> "nothing"],
      [at |-> "open", k |-> 0, left |-> "nothing"],
      [at |-> "paragraph", k |-> 1, left |-> "nothing"],
      [at |-> "paragraph", k |-> 2, left |-> "nothing"],
      [at |-> "save", k |-> 0, left |-> "nothing"],
      [at |-> "save", k |-> 0, left |-> "partial"],
      [at |-> "preview", k |-> 0, left |-> "nothing"] }

\* whether replace_placeholders raises DocumentReplacementError
FillFails(fault, d) ==
    \/ fault.at \in {"open", "save"}
    \/ fault.at = "paragraph" /\ fault.k <= Len(Traversal(d))

Recorded(s, name, stamp) ==
    Put(Put(Put(s, "preview_html_path", PreviewPath(name, stamp)),
            "completed_filename", CompletedPath(name, stamp)),
        "completed_path", CompletedPath(name, stamp))

\* the completed document is recorded whether or not the fill succeeded
SessionRecordedAnyway(s, ok, name, stamp) == Recorded(s, name, stamp)

\* lines 87-89 are reached only when nothing before them raised
SessionAfterFill(s, ok, name, stamp) == IF ok THEN Recorded(s, name, stamp) ELSE s

\* the files after replace_placeholders raised
FilesAfterFailedFill(fs, fault, out_path) ==
    IF fault.at = "save" /\ fault.left = "partial" THEN Put(fs, out_path, Partial) ELSE fs

PreviewSucceeded(s, fs, name, stamp, texts) ==
    Outcome(SessionAfterFill(s, TRUE, name, stamp),
            Put(Put(fs, CompletedPath(name, stamp), Whole(texts)),
                PreviewPath(name, stamp), Whole(texts)),
            [route |-> "preview", success |-> TRUE, status |-> 200,
             filename |-> CompletedPath(name, stamp)])

PreviewFailed(s, fs, name, stamp, texts) ==
    Outcome(SessionAfterFill(s, FALSE, name, stamp),
            Put(fs, CompletedPath(name, stamp), Whole(texts)),
            Routed("preview", handle_api_error("PreviewGenerationError",
                                               "Failed to generate preview")))

Filled(s, fs, name, stamp, fault, texts) ==
    IF fault.at = "preview" THEN PreviewFailed(s, fs, name, stamp, texts)
    ELSE PreviewSucceeded(s, fs, name, stamp, texts)

FillFailed(s, fs, name, stamp, fault) ==
    Outcome(SessionAfterFill(s, FALSE, name, stamp),
            FilesAfterFailedFill(fs, fault, CompletedPath(name, stamp)),
            Routed("preview", handle_api_error("DocumentReplacementError",
                                               "Failed to process document")))

GenerateFrom(s, fs, name, stamp, fault, d) ==
    IF FillFails(fault, d) THEN FillFailed(s, fs, name, stamp, fault)
    ELSE Filled(s, fs, name, stamp, fault,
                FillAll(d, Get(s, "answers", <<>>), Get(s, "answers_overrides", <<>>)).texts)

generate_preview(s, fs, t, fault) ==
    IF ~Has(s, "uploaded_file")
    THEN Outcome(s, fs, Routed("preview", handle_api_error("SessionExpiredError",
                                                         "Session expired")))
    ELSE IF Get(s, "answers", <<>>) = <<>>
    THEN Outcome(s, fs, [route |-> "preview", success |-> FALSE, status |-> 400])
    ELSE IF ~Has(fs, s["uploaded_file"].file_path)
    THEN Outcome(s, fs, Routed("preview", handle_api_error("SessionExpiredError",
                                                         "Session expired")))
    ELSE GenerateFrom(s, fs, s["uploaded_file"].safe_filename, t, fault,
                      fs[s["uploaded_file"].file_path].data)

\* ---- POST /preview/clear and the first half of POST /preview/regenerate
PreviewKeys == {"preview_html_path", "completed_path", "completed_filename"}

WithoutPreview(s) == [x \in DOMAIN s \ PreviewKeys |-> s[x]]

PreviewFilesOf(s) ==
    {s[k] : k \in {"preview_html_path", "completed_path"} \cap DOMAIN s}

WithoutPreviewFiles(s, fs) == [p \in DOMAIN fs \ PreviewFilesOf(s) |-> fs[p]]

clear_preview(s, fs) ==
    Outcome(WithoutPreview(s), WithoutPreviewFiles(s, fs),
            [route |-> "preview_clear", success |-> TRUE, status |-> 200])

regenerate_preview(s, fs, t, fault) ==
    generate_preview(WithoutPreview(s), WithoutPreviewFiles(s, fs), t, fault)

\* ---- GET /download
download_document(s, fs) ==
    IF ~Has(s, "completed_path") \/ ~Has(s, "completed_filename")
    THEN Outcome(s, fs, Routed("download", handle_api_error("SessionExpiredError",
                                                          "Session expired")))
    ELSE IF ~Has(fs, s["completed_path"])
    THEN Outcome(s, fs, Routed("download", handle_api_error("SessionExpiredError",
                                                          "Session expired")))
    ELSE Outcome(s, fs, [route |-> "download", success |-> TRUE, status |-> 200,
                         file |-> fs[s["completed_path"]],
                         download_name |-> s["completed_filename"]])

\* ---- the before_request hook: the session has timed out
is_session_expired(s, t) == Has(s, "last_activity") /\ t > s["last_activity"]

clear_session(s, fs) ==
    Outcome(EmptyDict,
            IF Has(s, "completed_path") THEN Pop(fs, s["completed_path"]) ELSE fs,
            [route |-> "timeout"])

\* ---- the requests as actions
Handle(o) ==
    /\ session' = o.session
    /\ files' = o.files
    /\ response' = o.response

UploadFile ==
    /\ \E name \in UploadNames, d \in SessionDocs :
          Handle(upload_file(session, files, now, name, d))
    /\ UNCHANGED <<now, nonsess>>

ClearUpload ==
    /\ Handle(clear_upload(session, files))
    /\ UNCHANGED <<now, nonsess>>

Detect ==
    /\ Handle(detect(session, files, now))
    /\ UNCHANGED <<now, nonsess>>

SubmitAnswer ==
    /\ \E placeholder \in PlaceholderRequests, answer \in AnswerRequests :
          Handle(submit_answer(session, files, placeholder, answer))
    /\ UNCHANGED <<now, nonsess>>

SubmitInstanceOverride ==
    /\ Handle(submit_instance_override(session, files,
                                       <<"p","0","-","s","0","-","e","7">>,
                                       Key_raw, Val_override))
    /\ UNCHANGED <<now, nonsess>>

ResetConversation ==
    /\ Handle(reset_conversation(session, files))
    /\ UNCHANGED <<now, nonsess>>

GeneratePreview ==
    /\ \E fault \in Faults : Handle(generate_preview(session, files, now, fault))
    /\ UNCHANGED <<now, nonsess>>

RegeneratePreview ==
    /\ \E fault \in Faults : Handle(regenerate_preview(session, files, now, fault))
    /\ UNCHANGED <<now, nonsess>>

ClearPreview ==
    /\ Handle(clear_preview(session, files))
    /\ UNCHANGED <<now, nonsess>>

Download ==
    /\ Handle(download_document(session, files))
    /\ UNCHANGED <<now, nonsess>>

SessionTimeout ==
    /\ is_session_expired(session, now)
    /\ Handle(clear_session(session, files))
    /\ UNCHANGED <<now, nonsess>>

Tick ==
    /\ now < MaxClock
    /\ now' = now + 1
    /\ UNCHANGED <<session, files, response, nonsess>>

SessionInit ==
    /\ LibIdle
    /\ TextIdle
    /\ ConcIdle
    /\ SessIdle
    /\ RunIdle
    /\ LlmIdle

SessionNext ==
    \/ UploadFile
    \/ ClearUpload
    \/ Detect
    \/ SubmitAnswer
    \/ SubmitInstanceOverride
    \/ ResetConversation
    \/ GeneratePreview
    \/ RegeneratePreview
    \/ ClearPreview
    \/ Download
    \/ SessionTimeout
    \/ Tick

SessionSpec == SessionInit /\ [][SessionNext]_vars

\* ------------------------------------------------------------ the runs of a paragraph

\* an attribute of a run is None or a value
None == <<>>
Some(v) == <<v>>

\* the number of runs of a paragraph
MaxParRuns == 2

\* the formatting of a run: nothing set, everything set, and a run whose font
\* name is the empty string and whose font size is 0
RunFormats ==
    { [bold |-> None, italic |-> None, underline |-> None, font_name |-> None,
       font_size |-> None],
      [bold |-> Some(TRUE), italic |-> Some(FALSE), underline |-> Some(TRUE),
       font_name |-> Some("Arial"), font_size |-> Some(12)],
      [bold |-> Some(FALSE), italic |-> Some(TRUE), underline |-> None,
       font_name |-> Some(""), font_size |-> Some(0)] }

RunTexts ==
    { <<>>, Frag_double, <<"{", "{", "a">>, <<"b", "}", "}">>, <<"x", " ">>, Txt_address }

Run(fmt, t) ==
    [text |-> t, bold |-> fmt.bold, italic |-> fmt.italic, underline |-> fmt.underline,
     font_name |-> fmt.font_name, font_size |-> fmt.font_size]

RECURSIVE RunsOf(_)
RunsOf(n) ==
    IF n = 0 THEN {<<>>}
    ELSE RunsOf(n - 1)
         \cup {Append(rs, Run(fmt, t)) : rs \in RunsOf(n - 1), fmt \in RunFormats, t \in RunTexts}

RunAnswers ==
    << [key |-> Key_ab, value |-> Val_acme], [key |-> Str_address, value |-> Val_main_st] >>

\* paragraph.text: the texts of the runs, joined
ParagraphText(rs) == ConcatAll([k \in 1..Len(rs) |-> rs[k].text])

RunInit ==
    /\ LibIdle
    /\ TextIdle
    /\ ConcIdle
    /\ SessIdle
    /\ LlmIdle
    /\ \E rs \in RunsOf(MaxParRuns), ans \in {<<>>, RunAnswers} :
          paragraph = [NoParagraph EXCEPT !.step = "opened", !.original = rs, !.runs = rs,
                                          !.answers = ans]

\* a new run without formatting
PlainRun(rs, new_text) == <<Run([bold |-> None, italic |-> None, underline |-> None,
                                 font_name |-> None, font_size |-> None], new_text)>>

\* _update_paragraph_text: the runs are emptied and removed, and one run is
\* added with the new text and what is set of the first run's formatting
update_paragraph_text(rs, new_text) ==
    << [text |-> new_text,
        bold |-> IF rs = <<>> THEN None ELSE rs[1].bold,
        italic |-> IF rs = <<>> THEN None ELSE rs[1].italic,
        underline |-> IF rs = <<>> THEN None ELSE rs[1].underline,
        font_name |-> IF rs # <<>> /\ rs[1].font_name # None /\ rs[1].font_name[1] # ""
                      THEN rs[1].font_name ELSE None,
        font_size |-> IF rs # <<>> /\ rs[1].font_size # None /\ rs[1].font_size[1] # 0
                      THEN rs[1].font_size ELSE None] >>

\* the end of _replace_in_paragraph: `if replacements:` the paragraph is updated
ReplacedRuns(p, t, plan) ==
    IF plan.replacements = <<>> THEN [p EXCEPT !.step = "replaced"]
    ELSE [p EXCEPT !.step = "replaced", !.substituted = TRUE,
                   !.runs = update_paragraph_text(
                               p.runs, ApplyReplacements(t, SortDescending(plan.replacements)))]

\* _replace_in_paragraph on the paragraph
ReplaceInParagraph ==
    /\ paragraph.step = "opened"
    /\ paragraph' = ReplacedRuns(paragraph, ParagraphText(paragraph.runs),
                                 PlanParagraph(FillInit,
                                               build_placeholder_lookup(paragraph.answers),
                                               <<>>, ParagraphText(paragraph.runs),
                                               BodyLocator(0)))
    /\ UNCHANGED nonrun

\* process_para of _fill_signature_labels with the value v of the label
SignedRuns(p, t, v) ==
    IF v.found /\ v.value # <<>>
    THEN [p EXCEPT !.step = "saved", !.appended = TRUE,
                   !.runs = update_paragraph_text(p.runs, t \o <<" ">> \o v.value)]
    ELSE [p EXCEPT !.step = "saved"]

LabelledRuns(p, t, lookup, hits) ==
    IF hits = {} THEN [p EXCEPT !.step = "saved"]
    ELSE SignedRuns(p, t, resolve_value(lookup,
                    normalize_placeholder_name(signature_labels[FirstOf(hits)].key)))

\* _fill_signature_labels on the paragraph, and the save
FillSignatureLabels ==
    /\ paragraph.step = "replaced"
    /\ paragraph' = LabelledRuns(paragraph, ParagraphText(paragraph.runs),
                                 build_placeholder_lookup(paragraph.answers),
                                 EndingLabels(Lower(Strip(ParagraphText(paragraph.runs)))))
    /\ UNCHANGED nonrun

RunNext ==
    \/ ReplaceInParagraph
    \/ FillSignatureLabels

RunSpec == RunInit /\ [][RunNext]_vars

\* ------------------------------------------------------------ the rate limit of the LLM service

\* timedelta(minutes=1), in seconds
WindowSeconds == 60
\* the last reading of the clock
MaxTime == 90
\* the time that passes between two calls
Lapses == {30}

ModelNames == {"primary", "fallback"}
\* get_model returns None, generate_content raises, or the model responds
ModelOutcomes == {"unavailable", "fails", "responds"}

LlmInit ==
    /\ LibIdle
    /\ TextIdle
    /\ ConcIdle
    /\ SessIdle
    /\ RunIdle
    /\ tracker = RateLimitTracker
    /\ models \in {<<"primary">>, <<"primary", "fallback">>}
    /\ clock = 0
    /\ reply = NoReply

\* the requests of the last minute
RecentRequests(requests, t) == SelectSeq(requests, LAMBDA r : r > t - WindowSeconds)

\* check_rate_limit(): the tracker with the old requests removed, and `allowed`
check_rate_limit(tr, t) ==
    [tracker |-> [tr EXCEPT !.requests = RecentRequests(tr.requests, t)],
     allowed |-> ~(Len(RecentRequests(tr.requests, t)) >= tr.max_per_minute)]

\* record_request()
record_request(tr, t) == [tr EXCEPT !.requests = Append(@, t)]

\* the request to the model `name` is recorded and sent; `lying` is the number
\* of requests of the last minute it found recorded
SentTo(g, t, name) ==
    [tracker |-> record_request(g.tracker, t),
     sends |-> Append(g.sends, [model |-> name,
                                lying |-> Len(RecentRequests(g.tracker.requests, t))]),
     model |-> "none"]

\* _generate_with_fallback: the models are tried in order until one responds
RECURSIVE generate_with_fallback(_, _, _, _)
generate_with_fallback(g, t, names, env) ==
    IF names = <<>> THEN g
    ELSE IF env[Head(names)] = "unavailable"
    THEN generate_with_fallback(g, t, Tail(names), env)
    ELSE IF env[Head(names)] = "responds"
    THEN [SentTo(g, t, Head(names)) EXCEPT !.model = Head(names)]
    ELSE generate_with_fallback(SentTo(g, t, Head(names)), t, Tail(names), env)

FallbackQuestions(tr) ==
    [tracker |-> tr, reply |-> [source |-> "fallback", model |-> "none", sends |-> <<>>]]

Generated(g) ==
    [tracker |-> g.tracker,
     reply |-> [source |-> IF g.model = "none" THEN "fallback" ELSE "llm",
                model |-> g.model, sends |-> g.sends]]

Checked(c, t, names, env) ==
    IF ~c.allowed THEN FallbackQuestions(c.tracker)
    ELSE Generated(generate_with_fallback(
                     [tracker |-> c.tracker, sends |-> <<>>, model |-> "none"], t, names, env))

\* generate_questions_for_candidates for a non-empty list of items
generate_questions_for_candidates(tr, t, names, use_llm, env) ==
    IF ~use_llm THEN FallbackQuestions(tr)
    ELSE Checked(check_rate_limit(tr, t), t, names, env)

Asked(r) ==
    /\ tracker' = r.tracker
    /\ reply' = r.reply

GenerateQuestionsForCandidates ==
    /\ \E use_llm \in BOOLEAN, env \in [ModelNames -> ModelOutcomes] :
          Asked(generate_questions_for_candidates(tracker, clock, models, use_llm, env))
    /\ UNCHANGED <<models, clock, nonllm>>

\* time passes
ClockAdvance ==
    /\ clock < MaxTime
    /\ \E lapse \in Lapses : clock' = clock + lapse
    /\ UNCHANGED <<tracker, models, reply, nonllm>>

LlmNext ==
    \/ GenerateQuestionsForCandidates
    \/ ClockAdvance

LlmSpec == LlmInit /\ [][LlmNext]_vars

\* ------------------------------------------------------------ properties

\* the candidates a detection result holds for the paragraph at a locator
CandidatesAt(result, locator) ==
    SelectSeq(result.candidates, LAMBDA c : c.locator = locator)

\* the text with the disjoint spans rs, in ascending order, replaced by their values
RECURSIVE Spliced(_, _, _)
Spliced(t, from, rs) ==
    IF rs = <<>> THEN Slice(t, from, Len(t))
    ELSE Slice(t, from, Head(rs).start) \o Head(rs).value \o Spliced(t, Head(rs).end, Tail(rs))

\* C1: filling the document whose single paragraph is "This Agreement is between
\* {{COMPANY_NAME}} and {{CLIENT_NAME}}, dated [Effective Date]." with the answers
\* company_name = "Acme Corp", client_name = "Jane Doe", effective_date =
\* "March 1, 2025" and no overrides saves the paragraph text "This Agreement is
\* between Acme Corp and Jane Doe, dated March 1, 2025."
C1_EndToEndFill ==
    (completed.saved /\ doc = AgreementDoc /\ answers = AgreementAnswers /\ overrides = <<>>)
        => completed.texts = <<Txt_agreement_filled>>

\* the (start, end, kind, key) tuples of the matches fill logged for a paragraph
FillSpans(locator) ==
    { [start |-> fil.matches[k].start, end |-> fil.matches[k].end,
       pattern_type |-> fil.matches[k].pattern_type,
       normalized |-> fil.matches[k].normalized]
      : k \in {j \in 1..Len(fil.matches) : fil.matches[j].locator = locator} }

\* the same tuples of the pattern candidates detection returned for it
DetectSpans(result, locator) ==
    { [start |-> result.candidates[k].start, end |-> result.candidates[k].end,
       pattern_type |-> result.candidates[k].pattern_type,
       normalized |-> result.candidates[k].normalized]
      : k \in {j \in 1..Len(result.candidates) :
                 /\ result.candidates[j].locator = locator
                 /\ result.candidates[j].pattern_type # "signature_label"} }

\* C2: for every paragraph of the document, the (start, end, pattern kind,
\* normalized key) tuples fill treats as placeholder spans are exactly those of
\* the arbitrated pattern candidates detection returns for that paragraph.
C2_FillAgreesWithDetect ==
    (completed.saved /\ results # <<>>) =>
        \A k \in 1..Len(Traversal(doc)) :
            FillSpans(Traversal(doc)[k].locator)
                = DetectSpans(results[1], Traversal(doc)[k].locator)

\* C3: the list arbitrate returns for a paragraph holds no two distinct spans
\* (s1, e1), (s2, e2) with s1 < e2 and s2 < e1.
C3_ArbitrationNonOverlap ==
    \A i, j \in 1..Len(det.kept) :
        i # j => ~(det.kept[i].start < det.kept[j].end /\ det.kept[j].start < det.kept[i].end)

\* arbitration kept two spans of a paragraph and dropped a raw match
C3_Witness ==
    /\ active = "detect"
    /\ det.idx >= 1
    /\ Len(det.kept) >= 2
    /\ Len(collect_candidates(Traversal(doc)[det.idx].text,
                              Traversal(doc)[det.idx].locator)) > Len(det.kept)

\* the candidates cands are one candidate, of the kind
SoleCandidate(cands, kind) == Len(cands) = 1 /\ cands[1].pattern_type = kind

PriorityHoldsAt(result, para) ==
    /\ MatchDoubleCurly(para.text, 0) = Len(para.text)
          => SoleCandidate(CandidatesAt(result, para.locator), "double_curly")
    /\ MatchSquareBracket(para.text, 0) = Len(para.text)
          => SoleCandidate(CandidatesAt(result, para.locator), "square_bracket")

PriorityHoldsIn(result, trav) == \A k \in 1..Len(trav) : PriorityHoldsAt(result, trav[k])

\* C4: for a paragraph that is one double-curly placeholder, such as {{X}},
\* detection returns exactly one candidate, of kind double_curly; for a paragraph
\* that is one square-bracket placeholder, such as [Company Name], exactly one
\* candidate, of kind square_bracket.
C4_PriorityPrecedence ==
    \A r \in 1..Len(results) : PriorityHoldsIn(results[r], Traversal(doc))

\* detection has returned for the paragraph {{X}}, with one double_curly candidate
C4_Witness ==
    /\ doc = OneParagraph(Txt_X)
    /\ results # <<>>
    /\ Len(results[1].candidates) = 1
    /\ results[1].candidates[1].pattern_type = "double_curly"

\* the index of the paragraph with a locator, in traversal order
ParagraphIndex(locator) ==
    CHOOSE k \in 1..Len(Traversal(doc)) : Traversal(doc)[k].locator = locator

\* fill has no value for the candidate c: none under its key, no override for
\* its instance id, none under the fallback keys of its kind
HasNoValue(c) ==
    ~ReplacementValue(fil.lookup, overrides, c.locator, c.pattern_type,
                      [start |-> c.start, end |-> c.end], c.normalized).found

\* C5: a placeholder occurrence that detection returned, whose key (and every
\* fallback key of its kind) is missing from the answers and that has no
\* override, still stands in the filled paragraph with its text as it was.
C5_UnresolvedUntouched ==
    (completed.saved /\ results # <<>>) =>
        \A k \in 1..Len(results[1].candidates) :
            HasNoValue(results[1].candidates[k]) =>
                Contains(completed.texts[ParagraphIndex(results[1].candidates[k].locator)],
                         results[1].candidates[k].original)

\* the candidates cands are one signature_label candidate with the key address
SoleAddressLabel(cands) ==
    /\ Len(cands) = 1
    /\ cands[1].normalized = Str_address
    /\ cands[1].pattern_type = "signature_label"

SignatureHoldsAt(para, k) ==
    para.text = Txt_address =>
        /\ \A r \in 1..Len(results) : SoleAddressLabel(CandidatesAt(results[r], para.locator))
        /\ completed.saved =>
             \A a \in 1..Len(answers) :
                 answers[a].key = Str_address =>
                     completed.texts[k] = Txt_address \o <<" ">> \o answers[a].value

SignatureHoldsIn(trav) == \A k \in 1..Len(trav) : SignatureHoldsAt(trav[k], k)

\* C6: a paragraph whose text is exactly "Address:" is detected as one candidate
\* with the key address and the kind signature_label, and fill with an answer
\* for address saves the paragraph as "Address: " followed by that answer.
C6_SignatureLabel ==
    SignatureHoldsIn(Traversal(doc))

\* the document "Address:" has been detected and filled with address = "123 Main St"
C6_Witness ==
    /\ doc = AddressDoc
    /\ answers = AddressAnswers
    /\ results # <<>>
    /\ results[1].candidates[1].pattern_type = "signature_label"
    /\ completed.saved
    /\ completed.texts = <<Txt_address_filled>>

Overridden(c) == \E o \in 1..Len(overrides) : overrides[o].id = c.id
Answered(c) == \E a \in 1..Len(answers) : answers[a].key = c.normalized

\* the value the precedence rule gives the candidate c
ClaimedValue(c) ==
    IF Overridden(c)
    THEN overrides[CHOOSE o \in 1..Len(overrides) : overrides[o].id = c.id].answer
    ELSE answers[CHOOSE a \in 1..Len(answers) : answers[a].key = c.normalized].value

ClaimedText(t, cs) ==
    Spliced(t, 0, [i \in 1..Len(cs) |->
                     [start |-> cs[i].start, end |-> cs[i].end, value |-> ClaimedValue(cs[i])]])

\* C7: in a paragraph whose placeholders all have an answer or an override, fill
\* writes the override at the span of the instance that has one, also when the
\* answers hold a value for its key, and the field-level answer at every other
\* instance.
C7_OverridePrecedence ==
    (completed.saved /\ results # <<>>) =>
        \A k \in 1..Len(Traversal(doc)) :
            (/\ \E i \in 1..Len(CandidatesAt(results[1], Traversal(doc)[k].locator)) :
                  Overridden(CandidatesAt(results[1], Traversal(doc)[k].locator)[i])
             /\ \A i \in 1..Len(CandidatesAt(results[1], Traversal(doc)[k].locator)) :
                  /\ CandidatesAt(results[1], Traversal(doc)[k].locator)[i].pattern_type
                        # "signature_label"
                  /\ \/ Overridden(CandidatesAt(results[1], Traversal(doc)[k].locator)[i])
                     \/ Answered(CandidatesAt(results[1], Traversal(doc)[k].locator)[i]))
            => completed.texts[k]
                 = ClaimedText(Traversal(doc)[k].text,
                               CandidatesAt(results[1], Traversal(doc)[k].locator))

\* the index of the paragraph with a locator among the paragraphs trav
IndexIn(trav, locator) == CHOOSE k \in 1..Len(trav) : trav[k].locator = locator

\* the candidates that are underscore runs without a label before them, in the
\* order of the result
IsUnlabeledRun(trav, c) ==
    /\ c.pattern_type = "underscore"
    /\ ~UnderscoreLabelKey(trav[IndexIn(trav, c.locator)].text, c.start).found

UnlabeledRunsIn(trav, cands) == SelectSeq(cands, LAMBDA c : IsUnlabeledRun(trav, c))

UnlabeledRuns(result) == UnlabeledRunsIn(Traversal(doc), result.candidates)

\* the candidate c comes before the candidate c2 in the traversal trav
Precedes(trav, c, c2) ==
    \/ IndexIn(trav, c.locator) < IndexIn(trav, c2.locator)
    \/ c.locator = c2.locator /\ c.start < c2.start

InTraversalOrder(trav, cands) ==
    \A i \in 1..Len(cands) - 1 : Precedes(trav, cands[i], cands[i + 1])

NumberedInOrder(runs) ==
    \A n \in 1..Len(runs) : runs[n].normalized = Str_field_ \o IntToStr(n)

KeysAndIds(result) ==
    [i \in 1..Len(result.candidates) |->
        <<result.candidates[i].id, result.candidates[i].normalized>>]

\* C8: every detection lists its candidates in traversal order (body paragraphs
\* first, then tables by table, row, cell and paragraph, left to right within a
\* paragraph: each candidate precedes the next one) and gives the n-th unlabeled
\* underscore run the key field_n; a second detection of the same document
\* yields the same keys and instance ids.
C8_SequentialCounters ==
    /\ \A r \in 1..Len(results) :
          /\ InTraversalOrder(Traversal(doc), results[r].candidates)
          /\ NumberedInOrder(UnlabeledRuns(results[r]))
    /\ \A r, q \in 1..Len(results) :
          /\ KeysAndIds(results[r]) = KeysAndIds(results[q])
          /\ Keys(results[r].placeholders) = Keys(results[q].placeholders)

\* two detections of a document with more than two unlabeled underscore runs,
\* two of them in one body paragraph and the others in table cells
C8_Witness ==
    /\ Len(results) = 2
    /\ Len(UnlabeledRuns(results[2])) >= 3
    /\ UnlabeledRuns(results[2])[1].locator = UnlabeledRuns(results[2])[2].locator
    /\ UnlabeledRuns(results[2])[3].locator # UnlabeledRuns(results[2])[2].locator
    /\ UnlabeledRuns(results[2])[3].normalized = <<"f","i","e","l","d","_","3">>

\* the longest instance list of the groups
MaxIds(groups) ==
    IF groups = <<>> THEN 0
    ELSE CHOOSE n \in {Len(groups[k].ids) : k \in 1..Len(groups)} :
            \A k \in 1..Len(groups) : Len(groups[k].ids) <= n

\* the places (group, position) where the groups of a result hold the id
PlacesOf(groups, id) ==
    {p \in {<<k, j>> : k \in 1..Len(groups), j \in 1..MaxIds(groups)} :
        p[2] <= Len(groups[p[1]].ids) /\ groups[p[1]].ids[p[2]] = id}

RECURSIVE SumOfCounts(_)
SumOfCounts(groups) ==
    IF groups = <<>> THEN 0 ELSE Len(Head(groups).ids) + SumOfCounts(Tail(groups))

\* C9: in every detection result each candidate's instance id is listed once, by
\* the field named by the candidate's key, no field has an empty instance list,
\* no two fields share a key, and the instance counts of the fields add up to
\* the number of candidates.
C9_FieldCoverage ==
    \A r \in 1..Len(results) :
        /\ \A i \in 1..Len(results[r].candidates) :
              /\ Cardinality(PlacesOf(results[r].groups, results[r].candidates[i].id)) = 1
              /\ \A p \in PlacesOf(results[r].groups, results[r].candidates[i].id) :
                    results[r].groups[p[1]].key = results[r].candidates[i].normalized
        /\ \A k \in 1..Len(results[r].groups) : results[r].groups[k].ids # <<>>
        /\ \A k, k2 \in 1..Len(results[r].groups) :
              results[r].groups[k].key = results[r].groups[k2].key => k = k2
        /\ SumOfCounts(results[r].groups) = Len(results[r].candidates)

\* a result with several fields, one of which has several instances
C9_Witness ==
    \E r \in 1..Len(results) :
        /\ Len(results[r].groups) >= 2
        /\ \E k \in 1..Len(results[r].groups) : Len(results[r].groups[k].ids) >= 2

\* C10: no field and no candidate of a detection result has a key that the
\* false-positive filter drops: the fields of the result are the ones
\* reduce_false_positives keeps, and every candidate and every group belongs to
\* one of them.
C10_FalsePositiveFilter ==
    \A r \in 1..Len(results) :
        /\ results[r].placeholders = reduce_false_positives(results[r].placeholders)
        /\ \A i \in 1..Len(results[r].candidates) :
              results[r].candidates[i].normalized
                 \in Keys(reduce_false_positives(results[r].placeholders))
        /\ \A k \in 1..Len(results[r].groups) :
              results[r].groups[k].key
                 \in Keys(reduce_false_positives(results[r].placeholders))

\* the locators of the paragraphs of the document
Locators(trav) == {trav[k].locator : k \in 1..Len(trav)}

\* the id of the candidate c is its locator followed by -s<start>-e<end>
WellFormedId(locators, c) ==
    /\ c.locator \in locators
    /\ c.id = c.locator \o <<"-", "s">> \o IntToStr(c.start) \o <<"-", "e">> \o IntToStr(c.end)

UniqueIds(locators, cands) ==
    /\ \A i \in 1..Len(cands) : WellFormedId(locators, cands[i])
    /\ \A i, j \in 1..Len(cands) : cands[i].id = cands[j].id => i = j

\* C11: in every detection result each candidate's id is the locator of its
\* paragraph (p<i> or t<i>-r<j>-c<k>-p<l>) followed by -s<start>-e<end>, and no
\* two candidates share an id.
C11_UniqueInstanceIds ==
    \A r \in 1..Len(results) : UniqueIds(Locators(Traversal(doc)), results[r].candidates)

\* a result with two candidates in one body paragraph and candidates in two
\* paragraphs of one table cell
C11_Witness ==
    \E r \in 1..Len(results) :
        /\ \E i, j \in 1..Len(results[r].candidates) :
              /\ i # j
              /\ results[r].candidates[i].locator = <<"p", "0">>
              /\ results[r].candidates[j].locator = <<"p", "0">>
        /\ \E i, j \in 1..Len(results[r].candidates) :
              /\ results[r].candidates[i].locator = CellLocator(1, 0, 0, 0)
              /\ results[r].candidates[j].locator = CellLocator(1, 0, 0, 1)

\* a key: characters of [a-z0-9_] only, no underscore at either end, no two
\* underscores in a row
IsKey(k) ==
    /\ \A i \in 1..Len(k) : IsKeyChar(k[i])
    /\ k # <<>> => k[1] # "_" /\ k[Len(k)] # "_"
    /\ \A i \in 1..Len(k) - 1 : ~(k[i] = "_" /\ k[i + 1] = "_")

\* C14: normalize_placeholder_name returns a key for every string, and applied
\* to what it returned it returns the same key again.
C14_NormalizeIdempotent ==
    /\ out.stage \in {"once", "twice"} => IsKey(out.once)
    /\ out.stage = "twice" => out.twice = out.once

\* the function was applied twice to a name with an upper-case letter, a hyphen
\* and an inner space, which it changed
C14_Witness ==
    /\ out.stage = "twice"
    /\ txt = <<"-", "A", " ", "b">>
    /\ out.once = <<"a", "_", "b">>

\* the string with every whitespace character written as a space
SpacesFor(s) == [i \in 1..Len(s) |-> IF IsSpace(s[i]) THEN " " ELSE s[i]]

\* C15: normalize_placeholder_name turns every run of whitespace between the
\* words of a name, whether spaces or tabs, into one underscore: a name
\* normalizes to the key of the same name written with spaces only.
C15_WhitespaceRuns ==
    out.stage = "once" => out.once = normalize_placeholder_name(SpacesFor(txt))

\* the kinds from the lowest priority (1) to the highest (6)
KindsByPriority ==
    <<"underscore", "single_curly", "double_curly", "square_bracket",
      "dollar_underscore", "signature_label">>

Rank(kind) == CHOOSE n \in 1..Len(KindsByPriority) : KindsByPriority[n] = kind

IsKept(c, kept) == \E k \in 1..Len(kept) : kept[k] = c

SpansOverlap(c, d) == c.start < d.end /\ d.start < c.end

\* the raw match c was dropped for a kept match of at least its priority, and
\* no kept match that overlaps it has a lower priority
DroppedForHigher(c, kept) ==
    /\ \E k \in 1..Len(kept) :
          SpansOverlap(c, kept[k]) /\ Rank(kept[k].kind) >= Rank(c.kind)
    /\ \A k \in 1..Len(kept) :
          SpansOverlap(c, kept[k]) => Rank(kept[k].kind) >= Rank(c.kind)

PriorityWins(collected, kept) ==
    \A i \in 1..Len(collected) :
        ~IsKept(collected[i], kept) => DroppedForHigher(collected[i], kept)

\* C20: every raw match of a paragraph that arbitration drops overlaps a kept
\* match whose priority (signature_label 6 > dollar_underscore 5 >
\* square_bracket 4 > double_curly 3 > single_curly 2 > underscore 1) is at
\* least its own, and overlaps no kept match of a lower priority.
C20_HighestPriorityWins ==
    out.stage = "arbitrated" => PriorityWins(out.collected, out.kept)

\* arbitration of "{{___}}": the single_curly match and the underscore run
\* inside the double_curly match are dropped
C20_Witness ==
    /\ out.stage = "arbitrated"
    /\ txt = <<"{", "{", "_", "_", "_", "}", "}">>
    /\ Len(out.collected) = 3
    /\ [k \in 1..Len(out.kept) |-> out.kept[k].kind] = <<"double_curly">>

\* the value fill has for the logged match m
ValueOf(m) ==
    ReplacementValue(fil.lookup, overrides, m.locator, m.pattern_type,
                     [start |-> m.start, end |-> m.end], m.normalized)

\* the spans fill replaced in the paragraph at a locator, with their values
ReplacedAt(locator) ==
    SelectSeq(fil.matches, LAMBDA m : m.locator = locator /\ ValueOf(m).found)

WithValues(ms) ==
    [i \in 1..Len(ms) |->
        [start |-> ms[i].start, end |-> ms[i].end, value |-> ValueOf(ms[i]).value]]

RECURSIVE InsertByStart(_, _)
InsertByStart(sorted, r) ==
    IF sorted = <<>> THEN <<r>>
    ELSE IF r.start < Head(sorted).start THEN <<r>> \o sorted
    ELSE <<Head(sorted)>> \o InsertByStart(Tail(sorted), r)

RECURSIVE AscendingByStart(_)
AscendingByStart(rs) ==
    IF rs = <<>> THEN <<>>
    ELSE InsertByStart(AscendingByStart(Tail(rs)), Head(rs))

Disjoint(rs) ==
    \A i, j \in 1..Len(rs) : i # j => ~(rs[i].start < rs[j].end /\ rs[j].start < rs[i].end)

\* the new text is the old one with each of the disjoint spans rs exchanged for
\* its value
PreservedOutside(t, new, rs) ==
    /\ Disjoint(rs)
    /\ new = Spliced(t, 0, AscendingByStart(rs))

\* C19: in every paragraph fill has processed, the spans it replaced are
\* pairwise non-overlapping and the new text is the original text with each
\* replaced span exchanged for its value, every character outside the spans
\* kept in its place.
C19_SubstitutionFrame ==
    \A k \in 1..fil.idx :
        PreservedOutside(Traversal(doc)[k].text, fil.texts[k],
                         WithValues(ReplacedAt(Traversal(doc)[k].locator)))

\* what a call returns when no other call runs
RunAlone(op, d) == IF op = "detect" THEN DetectAll(d) ELSE FillAll(d, ConcAnswers, <<>>)

\* C16: whatever the interleaving of the calls, each detection and each fill
\* returns for its document what it returns when it runs alone, with the same
\* field_<n> and amount_<n> keys: no counter and no key set is shared.
C16_IndependentCounters ==
    \A i \in 1..Len(calls) :
        calls[i].pc = "done" => calls[i].result = RunAlone(calls[i].op, calls[i].doc)

\* a detection has returned field_1 and field_2 for its document while a fill
\* of another document, entered before it returned, is between paragraphs with
\* its own counter at 1
C16_Witness ==
    /\ calls[1].op = "detect" /\ calls[1].pc = "done"
    /\ calls[1].doc.body = <<Para_two_blanks, Frag_dollar>>
    /\ Key_field_2 \in Keys(calls[1].result.placeholders)
    /\ calls[2].op = "fill" /\ calls[2].pc = "running"
    /\ calls[2].doc.body = <<Frag_dollar, Frag_underscore>>
    /\ calls[2].cell = 1
    /\ calls[2].idx = 1
    /\ cells[1].underscore_counter = 1

\* the document the session's uploaded file holds
UploadedDoc(s, fs) == fs[s["uploaded_file"].file_path].data

\* the occurrences of a field in a document are its instances: the matches
\* detect_placeholders_with_context keeps under the field's key
InstancesOf(cands, key) ==
    Cardinality({k \in 1..Len(cands) : cands[k].normalized = key})

CountsAgree(counts, grouped, cands) ==
    /\ \A k \in 1..Len(counts) : counts[k].count = InstancesOf(cands, counts[k].key)
    /\ \A k \in 1..Len(grouped) :
          grouped[k].count = InstancesOf(cands, grouped[k].normalized)

\* C12: the count /detect reports for a field, in the counts of the summary
\* (get_placeholder_count) and in the `count` of its group, is the number of
\* occurrences of the field's placeholders in the uploaded document.
C12_OccurrenceCount ==
    (response.route = "detect" /\ response.success)
        => CountsAgree(response.summary.counts, response.grouped,
                       DetectAll(UploadedDoc(session, files)).candidates)

OriginalsOf(cands, key) ==
    {cands[k].original : k \in {j \in 1..Len(cands) : cands[j].normalized = key}}

\* the rules of the filter that exclude a field whatever its frequency
Excluded(key, originals) ==
    \/ AllDigits(key)
    \/ Contains(Lower(key), Str_section)
    \/ Len(key) = 1
    \/ \E o \in originals : BracketFalsePositive(o)

FrequentKept(cands, kept) ==
    \A k \in 1..Len(cands) :
        (/\ InstancesOf(cands, cands[k].normalized) >= 2
         /\ ~Excluded(cands[k].normalized, OriginalsOf(cands, cands[k].normalized)))
            => HasKey(kept, cands[k].normalized)

\* C13: a field whose placeholder occurs two or more times in the uploaded
\* document and that hits no exclusion rule is among the placeholders /detect
\* returns after the false-positive filter, whatever the length of its key.
C13_FrequentShortKept ==
    (response.route = "detect" /\ response.status = 200)
        => FrequentKept(DetectAll(UploadedDoc(session, files)).candidates,
                        response.placeholders)

\* replace_placeholders is reached: there is a file, and there are answers
FillAttempted(s, fs) ==
    /\ Has(s, "uploaded_file")
    /\ Get(s, "answers", <<>>) # <<>>
    /\ Has(fs, s["uploaded_file"].file_path)

\* the step is a preview request whose fill fails at `fault`
FailedFillStep(fault) ==
    /\ FillAttempted(session, files)
    /\ FillFails(fault, UploadedDoc(session, files))
    /\ \/ Handle(generate_preview(session, files, now, fault))
       \/ Handle(regenerate_preview(session, files, now, fault))

NothingRecorded(before, after) ==
    \A k \in {"completed_path", "completed_filename", "preview_html_path"} :
        Has(after, k) => Has(before, k) /\ after[k] = before[k]

AllOrNothing ==
    /\ response'.success = FALSE
    /\ response'.error = "DocumentReplacementError"
    /\ Has(files', session["uploaded_file"].file_path)
    /\ files'[session["uploaded_file"].file_path] = files[session["uploaded_file"].file_path]
    /\ NothingRecorded(session, session')

DocumentChanges ==
    /\ Has(session, "uploaded_file") /\ Has(files, session["uploaded_file"].file_path)
    /\ Has(session', "uploaded_file") /\ Has(files', session'["uploaded_file"].file_path)
    /\ UploadedDoc(session', files') # UploadedDoc(session, files)

HoldsNothingOfADocument(s) ==
    /\ Get(s, "answers", <<>>) = <<>>
    /\ Get(s, "answers_overrides", <<>>) = <<>>
    /\ ~Has(s, "placeholders")
    /\ ~Has(s, "completed_path")

\* C18: when an upload replaces the session's document by another one, the
\* session afterwards holds no answers, no overrides, no detected placeholders
\* and no completed document: what it held belonged to the previous document.
C18_AnswersScoped == [][DocumentChanges => HoldsNothingOfADocument(session')]_vars

\* the candidate c is a dollar amount without a label after or before it
IsUnlabeledAmount(trav, c) ==
    /\ c.pattern_type = "dollar_underscore"
    /\ ~DollarLabelKey(trav[IndexIn(trav, c.locator)].text, c.start, c.end,
                       DetectQuotes).found

\* the candidate c got a sequential fallback key, field_<n> or amount_<n>
IsSequential(trav, c) == IsUnlabeledRun(trav, c) \/ IsUnlabeledAmount(trav, c)

\* the keys fill gave the matches of c's pattern at c's span
FillKeysAt(c) ==
    { fil.matches[k].normalized :
        k \in {j \in 1..Len(fil.matches) :
                 /\ fil.matches[j].locator = c.locator
                 /\ fil.matches[j].start = c.start
                 /\ fil.matches[j].end = c.end
                 /\ fil.matches[j].pattern_type = c.pattern_type} }

SameSequentialKeys(trav, cands) ==
    \A i \in 1..Len(cands) :
        IsSequential(trav, cands[i]) => FillKeysAt(cands[i]) = {cands[i].normalized}

\* C21: fill gives every unlabeled underscore run the field_<n> key, and every
\* unlabeled $[___] the amount_<n> key, that detection gave the occurrence at
\* the same place of the same paragraph, for every document.
C21_FillReproducesSequentialKeys ==
    (completed.saved /\ results # <<>>) =>
        SameSequentialKeys(Traversal(doc), results[1].candidates)

\* no other candidate of the result has the key of the i-th one
KeyOfItsOwn(cands, i) ==
    \A j \in 1..Len(cands) : j # i => cands[j].normalized # cands[i].normalized

FreshKeys(trav, cands) ==
    \A i \in 1..Len(cands) : IsSequential(trav, cands[i]) => KeyOfItsOwn(cands, i)

\* C22: the sequential fallback key detection gives an unlabeled placeholder is
\* the key of no other placeholder of the result, neither of another unlabeled
\* one nor of an explicitly named field such as {{field_1}}.
C22_FreshFallbackKeys ==
    \A r \in 1..Len(results) : FreshKeys(Traversal(doc), results[r].candidates)

\* the field of the entry e occurs once and hits no exclusion rule
SingleOccurrence(cands, e) ==
    /\ InstancesOf(cands, e.key) = 1
    /\ ~Excluded(e.key, OriginalsOf(cands, e.key))

IsShortWord(key) == Len(key) <= 3 /\ ~HasChar(key, "_")

ShortSingletonsFiltered(cands, fields, kept) ==
    \A k \in 1..Len(fields) :
        SingleOccurrence(cands, fields[k]) =>
            /\ fields[k].key \in allow_short_singletons => HasKey(kept, fields[k].key)
            /\ (fields[k].key \notin allow_short_singletons /\ IsShortWord(fields[k].key))
                  => ~HasKey(kept, fields[k].key)

\* C23: the false-positive filter keeps a field that occurs once, hits no
\* exclusion rule and has one of the keys by, name, title, email, address,
\* phone, and drops every other field that occurs once and whose key has at
\* most three characters and no underscore.
C23_ShortSingletonAllowList ==
    out.stage = "filtered"
        => ShortSingletonsFiltered(out.candidates, out.placeholders, out.filtered)

\* the labels of a signature line
SignatureLineLabels == {Str_address, Str_email, Str_phone, Str_name, Str_title, Str_by}

\* the stripped text s is the label w in any case, a colon, and then nothing
\* but whitespace and leader characters
IsLabelLine(s, w) ==
    /\ Len(s) > Len(w)
    /\ Lower(Slice(s, 0, Len(w))) = w
    /\ s[Len(w) + 1] = ":"
    /\ \A i \in Len(w) + 2..Len(s) : IsSpace(s[i]) \/ IsLeader(s[i])

IsSignatureLine(t) == \E w \in SignatureLineLabels : IsLabelLine(Strip(t), w)

HasSignatureCandidate(cands) ==
    \E k \in 1..Len(cands) : cands[k].pattern_type = "signature_label"

\* C24: detection emits a signature_label candidate for a paragraph exactly
\* when its trimmed text is one of the labels Address, Email, Phone, Name,
\* Title, By in any case, followed by a colon and then only whitespace or
\* leader characters: "By:" has one, a bare "Name" has none.
C24_SignatureLabelRecognition ==
    out.stage = "processed" => (HasSignatureCandidate(out.candidates) <=> IsSignatureLine(txt))

\* the stripped text s is the label w in any case and a colon
IsBareLabel(s, w) == Lower(s) = w \o <<":">>

IsBareSignatureLabel(t) == \E w \in SignatureLineLabels : IsBareLabel(Strip(t), w)

\* the signature step changed nothing but bare labels, and those by appending a
\* space and a value
SignatureStepFrame(before, after) ==
    \A k \in 1..Len(before) :
        IF IsBareSignatureLabel(before[k])
        THEN \/ after[k] = before[k]
             \/ /\ Len(after[k]) > Len(before[k]) + 1
                /\ Slice(after[k], 0, Len(before[k]) + 1) = before[k] \o <<" ">>
        ELSE after[k] = before[k]

\* C25: the signature step at the end of fill appends a space and a value only
\* to paragraphs whose trimmed text is one of Address, Email, Phone, By, Name,
\* Title in any case followed by a colon; it leaves every paragraph with any
\* other text as it was.
C25_SignatureFillBareLabels ==
    completed.saved => SignatureStepFrame(fil.texts, completed.texts)

\* the entry of the answers whose key is exactly `key`
ExactEntries(ans, key) == {i \in 1..Len(ans) : ans[i].key = key}

ExactWins(ans, lookup, key) ==
    \A i \in ExactEntries(ans, key) :
        resolve_value(lookup, key) = [found |-> TRUE, value |-> ans[i].value]

\* C27: when the answers hold an entry whose key is exactly the normalized key
\* of a field fill meets, fill resolves the field to the value of that entry,
\* whatever other keys the answers hold and in whatever order.
C27_ExactAnswerKeyWins ==
    active = "fill" =>
        \A k \in 1..Len(fil.matches) :
            ExactWins(answers, fil.lookup, fil.matches[k].normalized)

NoEmptyKey(fields, cands) ==
    /\ \A k \in 1..Len(fields) : fields[k].key # <<>>
    /\ \A k \in 1..Len(cands) : cands[k].normalized # <<>>

\* C28: every field and every candidate detection produces has a non-empty
\* normalized key, for any paragraph text, also when the label a placeholder
\* captures holds only hyphens, underscores or whitespace.
C28_NoEmptyFieldKey ==
    out.stage = "processed" => NoEmptyKey(out.placeholders, out.candidates)

\* the answer the session holds for a key
StoredAnswers(s, key) ==
    {Get(s, "answers", <<>>)[k].value :
        k \in {j \in 1..Len(Get(s, "answers", <<>>)) : Get(s, "answers", <<>>)[j].key = key}}

\* the request named a key of the filtered detection result and was accepted
\* and stored, or named another key and was rejected with 404
AnsweredAsDetected(s, r) ==
    IF HasKey(s["placeholders"].filtered, r.placeholder)
    THEN r.status = 200 /\ StoredAnswers(s, r.placeholder) # {}
    ELSE r.status = 404 /\ StoredAnswers(s, r.placeholder) = {}

\* C29: in a session whose /detect succeeded, /conversation/answer with a
\* non-empty answer is accepted and the answer stored when the placeholder is a
\* key of the filtered detection result, and is rejected with 404 and nothing
\* stored when it is not.
C29_AnsweringFollowsDetection ==
    (response.route = "answer" /\ Has(response, "placeholder") /\ Has(session, "placeholders"))
        => AnsweredAsDetected(session, response)

\* the requests recorded in the minute that ends at the time t
RecordedIn(requests, t) ==
    Cardinality({i \in 1..Len(requests) : requests[i] > t - WindowSeconds /\ requests[i] <= t})

WindowEnds(requests) == {requests[i] : i \in 1..Len(requests)} \cup {clock}

\* C30: after any sequence of question generations, no more than
\* max_per_minute (15) requests are recorded within any 60 seconds, and every
\* request sent to a model, the fallback model after a failure of the primary
\* one included, found fewer than 15 requests recorded in the current window.
C30_RateLimitBound ==
    /\ \A t \in WindowEnds(tracker.requests) :
          RecordedIn(tracker.requests, t) <= tracker.max_per_minute
    /\ \A k \in 1..Len(reply.sends) : reply.sends[k].lying < tracker.max_per_minute

\* the text fill leaves in a paragraph with the text t
FilledText(t, lookup) ==
    FillSignatureParagraph(lookup,
        replace_in_paragraph(FillInit, lookup, <<>>, t, BodyLocator(0)).text)

\* the paragraph is one run with the text fill leaves in it
IsSingleRun(p) ==
    /\ Len(p.runs) = 1
    /\ p.runs[1].text = FilledText(ParagraphText(p.original), build_placeholder_lookup(p.answers))

FormatOf(r) ==
    [bold |-> r.bold, italic |-> r.italic, underline |-> r.underline,
     font_name |-> r.font_name, font_size |-> r.font_size]

\* the formatting of r with an empty font name and a font size of 0 taken as not set
SetFormatOf(r) ==
    [FormatOf(r) EXCEPT !.font_name = IF @ = Some("") THEN None ELSE @,
                        !.font_size = IF @ = Some(0) THEN None ELSE @]

====
